---------------------------- MODULE Spec2Model ----------------------------
(***************************************************************************)
(* A model of jellyfin_log_analyzer.py (class JellyfinLogAnalyzer).        *)
(*                                                                         *)
(* Text is modelled as it is in the program: a string is a sequence of    *)
(* one-character strings, and every regular expression of the source is    *)
(* an operator that computes what that expression matches and captures.    *)
(* An instant (a naive datetime) is <<day, second, microsecond>> with day  *)
(* counted from 1970-01-01; None is the empty tuple.                       *)
(***************************************************************************)
EXTENDS Integers, Sequences, FiniteSets, TLC

VARIABLES
    pc,                   \* position of the running operation
    events,               \* correlate_transcoding_events: the input list
    nextEvent,            \* index of the next event of the grouping loop
    sessions,             \* the dict `sessions`, in insertion order
    mergeIdx,             \* index of the next entry of session_list
    merged_sessions,      \* the dict `merged_sessions`, in insertion order
    owner,                \* history: provisional index -> accepted index
    mergeLog,             \* history: the proximity test each absorption passed
    correlated_sessions,  \* the returned list
    arg,                  \* the argument of a function called on its own
    ret,                  \* what that function returned
    all_errors,           \* analyze_logs: the dict `all_errors`
    found_errors,         \* self.found_errors
    max_errors_per_category,
    log_paths,            \* self.log_paths: the files, each with its lines
    nextPath,             \* index of the next file of the loop over log_paths
    categories            \* analyze_logs: the selected categories

corrVars == <<events, nextEvent, sessions, mergeIdx, merged_sessions,
              owner, mergeLog, correlated_sessions>>

callVars == <<arg, ret>>

fileVars == <<log_paths, nextPath, categories>>

reportVars == <<all_errors, found_errors, max_errors_per_category, fileVars>>

vars == <<pc, corrVars, callVars, reportVars>>

-----------------------------------------------------------------------------
(* Strings *)

None == <<>>

\* the element of a one-element set: TheOne({F(x) : x \in {e}}) is F(e), with
\* e computed once
TheOne(S) == CHOOSE x \in S : TRUE

Min(S) == CHOOSE x \in S : \A y \in S : x <= y
Max(S) == CHOOSE x \in S : \A y \in S : x >= y

IsSpace(c) == c \in {" ", "\t"}
IsDigit(c) == c \in {"0", "1", "2", "3", "4", "5", "6", "7", "8", "9"}

\* s[i..] begins with p
StartsAt(s, i, p) ==
    /\ i >= 1
    /\ i + Len(p) - 1 <= Len(s)
    /\ \A k \in 1..Len(p) : s[i + k - 1] = p[k]

\* p in s
Contains(s, p) == \E i \in 1..(Len(s) - Len(p) + 1) : StartsAt(s, i, p)

\* the first index >= i that is past the end of s or holds a character of
\* Stop: where a greedy run [^Stop]* begun at i ends
RunEnd(s, i, Stop) ==
    Min({j \in i..(Len(s) + 1) : j = Len(s) + 1 \/ s[j] \in Stop})

\* where a greedy \s* begun at i ends
SkipWs(s, i) ==
    Min({j \in i..(Len(s) + 1) : j = Len(s) + 1 \/ ~IsSpace(s[j])})

\* s[i..j-1]
Slice(s, i, j) == SubSeq(s, i, j - 1)

DigitChars == <<"0", "1", "2", "3", "4", "5", "6", "7", "8", "9">>

RECURSIVE NatToStr(_)
NatToStr(n) ==
    IF n < 10 THEN <<DigitChars[n + 1]>>
    ELSE NatToStr(n \div 10) \o <<DigitChars[(n % 10) + 1]>>

\* str(n), format(n)
IntToStr(n) == IF n < 0 THEN <<"-">> \o NatToStr(-n) ELSE NatToStr(n)

\* the digits of n, left-padded with zeros to width w (%02d, %04d, %06d)
RECURSIVE Pad(_, _)
Pad(n, w) == IF w = 0 THEN <<>> ELSE Pad(n \div 10, w - 1) \o <<DigitChars[(n % 10) + 1]>>

DigitVal(c) == CHOOSE d \in 0..9 : DigitChars[d + 1] = c

\* int(s) of a string of digits
RECURSIVE StrToNat(_)
StrToNat(s) ==
    IF Len(s) = 0 THEN 0
    ELSE 10 * StrToNat(SubSeq(s, 1, Len(s) - 1)) + DigitVal(s[Len(s)])

-----------------------------------------------------------------------------
(* Instants *)

Instant(day, sec, us) == <<day, sec, us>>

\* seconds since the epoch, the integer part of datetime.timestamp()
Epoch(t) == t[1] * 86400 + t[2]

\* a < b on datetimes
Before(a, b) ==
    \/ a[1] < b[1]
    \/ a[1] = b[1] /\ a[2] < b[2]
    \/ a[1] = b[1] /\ a[2] = b[2] /\ a[3] < b[3]

\* abs((a - b).total_seconds()) <= n, for a whole number n of seconds
WithinSeconds(a, b, n) ==
    LET hi == IF Before(a, b) THEN b ELSE a
        lo == IF Before(a, b) THEN a ELSE b
        ds == Epoch(hi) - Epoch(lo)
        du == hi[3] - lo[3]
    IN  \/ ds < n
        \/ ds = n /\ du <= 0

\* (a - b).total_seconds() > n, for a >= b
ExceedsSeconds(a, b, n) ==
    LET ds == Epoch(a) - Epoch(b)
        du == a[3] - b[3]
    IN  \/ ds > n
        \/ ds = n /\ du > 0

\* the proleptic Gregorian calendar of datetime: days since 1970-01-01
DaysFromCivil(y, m, d) ==
    LET yy  == IF m <= 2 THEN y - 1 ELSE y
        era == yy \div 400
        yoe == yy - era * 400
        mp  == IF m > 2 THEN m - 3 ELSE m + 9
        doy == (153 * mp + 2) \div 5 + d - 1
        doe == yoe * 365 + yoe \div 4 - yoe \div 100 + doy
    IN  era * 146097 + doe - 719468

\* <<year, month, day>> of a day number
CivilFromDays(z) ==
    LET zz  == z + 719468
        era == zz \div 146097
        doe == zz - era * 146097
        yoe == (doe - doe \div 1460 + doe \div 36524 - doe \div 146096) \div 365
        doy == doe - (365 * yoe + yoe \div 4 - yoe \div 100)
        mp  == (5 * doy + 2) \div 153
        d   == doy - (153 * mp + 2) \div 5 + 1
        m   == IF mp < 10 THEN mp + 3 ELSE mp - 9
        y   == yoe + era * 400
    IN  <<IF m <= 2 THEN y + 1 ELSE y, m, d>>

IsLeap(y) == (y % 4 = 0 /\ y % 100 # 0) \/ y % 400 = 0

DaysInMonth(y, m) ==
    IF m = 2 THEN (IF IsLeap(y) THEN 29 ELSE 28)
    ELSE IF m \in {4, 6, 9, 11} THEN 30 ELSE 31

\* datetime.min, 0001-01-01 00:00:00
DatetimeMin == Instant(DaysFromCivil(1, 1, 1), 0, 0)

\* str(datetime): YYYY-MM-DD HH:MM:SS, with .ffffff only when the
\* microsecond is not zero
DatetimeStr(t) ==
    LET c == CivilFromDays(t[1])
    IN  Pad(c[1], 4) \o <<"-">> \o Pad(c[2], 2) \o <<"-">> \o Pad(c[3], 2)
        \o <<" ">> \o Pad(t[2] \div 3600, 2) \o <<":">>
        \o Pad((t[2] \div 60) % 60, 2) \o <<":">> \o Pad(t[2] % 60, 2)
        \o (IF t[3] = 0 THEN <<>> ELSE <<".">> \o Pad(t[3], 6))

-----------------------------------------------------------------------------
(* Text of the source's patterns *)

S_file == <<"f","i","l","e",":">>
S_fileEscQuote == <<"f","i","l","e",":","\\","\"">>
S_fileQuote == <<"f","i","l","e",":","\"">>
S_ItemId == <<"I","t","e","m","I","d">>
S_playing_id == <<"p","l","a","y","i","n","g","_","i","d">>
S_event_playing_id == <<"e","v","e","n","t","_","p","l","a","y","i","n","g","_","i","d">>
S_session_playing_id == <<"s","e","s","s","i","o","n","_","p","l","a","y","i","n","g","_","i","d">>
S_time_ == <<"t","i","m","e","_">>
S_unknown_ == <<"u","n","k","n","o","w","n","_">>

\* The leftmost match of a pattern: caps[i] is the captured group of a
\* match that starts at i, or <<>> when none starts there (every group of
\* the source's patterns is of the form (...+) and so never empty).
FirstMatch(caps) ==
    LET starts == {i \in DOMAIN caps : caps[i] # <<>>}
    IN  IF starts = {} THEN <<>> ELSE caps[Min(starts)]

\* \s*[Seps]\s*"([^"]+)" matched at i: the group, or <<>>
QuotedValueAt(s, i, Seps) ==
    LET j == SkipWs(s, i)
        k == SkipWs(s, j + 1)
        e == RunEnd(s, k + 1, {"\""})
    IN  IF /\ j <= Len(s) /\ s[j] \in Seps
           /\ k <= Len(s) /\ s[k] = "\""
           /\ e <= Len(s) /\ e > k + 1
        THEN Slice(s, k + 1, e)
        ELSE <<>>

\* the part of a path after its last separator
BaseName(p, Seps) ==
    LET at == {i \in 1..Len(p) : p[i] \in Seps}
    IN  IF at = {} THEN p ELSE Slice(p, Max(at) + 1, Len(p) + 1)

-----------------------------------------------------------------------------
(* correlate_transcoding_events: identity of an event *)

\* transcoding_details.get(key): the empty string stands for an absent key
\* (both are false in the conditions that read it)
Get(d, key) == IF key \in DOMAIN d THEN d[key] ELSE <<>>

\* event.get('transcoding_details', {})
Details(event) ==
    IF "transcoding_details" \in DOMAIN event THEN event.transcoding_details
    ELSE <<>>

IdFields == <<"event_playing_id", "session_playing_id", "item_id">>

\* the value of the first identifier field that is set
DetailId(d) ==
    LET set == {n \in 1..3 : Get(d, IdFields[n]) # <<>>}
    IN  IF set = {} THEN <<>> ELSE d[IdFields[Min(set)]]

\* a variant that leaves the time bucket out of the key
BucketedId_NoBucket(id, timestamp) == id

\* the identifier group with a five-minute bucket when the event has an instant
BucketedId(id, timestamp) ==
    IF timestamp # None
    THEN id \o <<"_">> \o IntToStr(Epoch(timestamp) \div 300)
    ELSE id

RawIdNames == <<S_ItemId, S_playing_id, S_event_playing_id, S_session_playing_id>>

\* (?:ItemId|playing_id|event_playing_id|session_playing_id)\s*=\s*"([^"]+)" at i
RawIdAt(s, i) ==
    LET alts == {n \in 1..4 : /\ StartsAt(s, i, RawIdNames[n])
                              /\ QuotedValueAt(s, i + Len(RawIdNames[n]), {"="}) # <<>>}
    IN  IF alts = {} THEN <<>>
        ELSE QuotedValueAt(s, i + Len(RawIdNames[Min(alts)]), {"="})

RawIdInMessage(message) == FirstMatch([i \in 1..Len(message) |-> RawIdAt(message, i)])

\* file:\\"([^"]+)\\" at i
FileEscapedAt(s, i) ==
    LET k == i + Len(S_fileEscQuote)
        e == RunEnd(s, k, {"\""})
    IN  IF /\ StartsAt(s, i, S_fileEscQuote)
           /\ e <= Len(s) /\ e - 1 > k /\ s[e - 1] = "\\"
        THEN Slice(s, k, e - 1)
        ELSE <<>>

\* file:"([^"]+)" at i
FileQuotedAt(s, i) ==
    LET k == i + Len(S_fileQuote)
        e == RunEnd(s, k, {"\""})
    IN  IF StartsAt(s, i, S_fileQuote) /\ e <= Len(s) /\ e > k
        THEN Slice(s, k, e)
        ELSE <<>>

\* file:([^"\s]+) at i
FileBareAt(s, i) ==
    LET k == i + Len(S_file)
        e == RunEnd(s, k, {"\"", " ", "\t"})
    IN  IF StartsAt(s, i, S_file) /\ e > k
        THEN Slice(s, k, e)
        ELSE <<>>

\* the three file patterns in turn; the path of the first that matches
FilePathInMessage(message) ==
    LET a == FirstMatch([i \in 1..Len(message) |-> FileEscapedAt(message, i)])
        b == FirstMatch([i \in 1..Len(message) |-> FileQuotedAt(message, i)])
        c == FirstMatch([i \in 1..Len(message) |-> FileBareAt(message, i)])
    IN  IF a # <<>> THEN a ELSE IF b # <<>> THEN b ELSE c

\* os.path.basename of the referenced path (empty when there is none)
FileKey(message) == BaseName(FilePathInMessage(message), {"/"})

\* time_<rounded 30-second bucket>, or unknown_<len(sessions)>
TimeKey(timestamp, nsessions) ==
    IF timestamp # None
    THEN S_time_ \o IntToStr((Epoch(timestamp) + 15) \div 30)
    ELSE S_unknown_ \o IntToStr(nsessions)

\* with the identifiers of the message looked for before those of the details
SessionId_MessageFirst(event, nsessions) ==
    LET id == DetailId(Details(event))
        p2 == RawIdInMessage(event.message)
        p1 == IF p2 # <<>> THEN p2
              ELSE IF id # <<>> THEN BucketedId(id, event.timestamp) ELSE <<>>
        p3 == IF p1 # <<>> THEN p1 ELSE FileKey(event.message)
    IN  IF p3 # <<>> THEN p3 ELSE TimeKey(event.timestamp, nsessions)

\* session_id of an event, by the four priorities in order
SessionId(event, nsessions) ==
    LET id == DetailId(Details(event))
        p1 == IF id # <<>> THEN BucketedId(id, event.timestamp) ELSE <<>>
        p2 == IF p1 # <<>> THEN p1 ELSE RawIdInMessage(event.message)
        p3 == IF p2 # <<>> THEN p2 ELSE FileKey(event.message)
    IN  IF p3 # <<>> THEN p3 ELSE TimeKey(event.timestamp, nsessions)

\* index of the session with this key in a dict kept as a sequence, or 0
IndexOfId(dict, id) ==
    LET at == {k \in 1..Len(dict) : dict[k].id = id}
    IN  IF at = {} THEN 0 ELSE Min(at)

NewSession(id) ==
    [id |-> id, events |-> <<>>, latest_timestamp |-> None,
     earliest_timestamp |-> None]

\* a variant whose earliest instant is the one of the first event with an
\* instant
WithEvent_FirstSeen(s, event) ==
    LET t == event.timestamp
    IN  [s EXCEPT
          !.events = Append(@, event),
          !.latest_timestamp =
              IF t # None /\ (@ = None \/ Before(@, t)) THEN t ELSE @,
          !.earliest_timestamp =
              IF t # None /\ @ = None THEN t ELSE @]

\* one session after event has been appended to it
WithEvent(s, event) ==
    LET t == event.timestamp
    IN  [s EXCEPT
          !.events = Append(@, event),
          !.latest_timestamp =
              IF t # None /\ (@ = None \/ Before(@, t)) THEN t ELSE @,
          !.earliest_timestamp =
              IF t # None /\ (@ = None \/ Before(t, @)) THEN t ELSE @]

\* the body of the grouping loop for one event
GroupEvent(dict, event) ==
    LET id == SessionId(event, Len(dict))
        k  == IndexOfId(dict, id)
    IN  IF k = 0
        THEN Append(dict, WithEvent(NewSession(id), event))
        ELSE [dict EXCEPT ![k] = WithEvent(@, event)]

-----------------------------------------------------------------------------
(* correlate_transcoding_events: the merge pass *)

\* any('file:' in event['entry'].message for event in events)
HasFile(s) ==
    \E k \in 1..Len(s.events) : Contains(s.events[k].message, S_file)

\* any(event.transcoding_details.get('event_playing_id') for event in events)
HasEventPlayingId(s) ==
    \E k \in 1..Len(s.events) :
        Get(Details(s.events[k]), "event_playing_id") # <<>>

\* file:["\']?([^"\']+)["\']? at i
MergeFileAt(s, i) ==
    LET k0 == i + Len(S_file)
        k  == IF k0 <= Len(s) /\ s[k0] \in {"\"", "'"} THEN k0 + 1 ELSE k0
        e  == RunEnd(s, k, {"\"", "'"})
    IN  IF StartsAt(s, i, S_file) /\ k0 <= Len(s) /\ e > k
        THEN Slice(s, k, e)
        ELSE <<>>

\* the base filenames (either path separator) referenced by a session
SessionFiles(s) ==
    LET paths == {FirstMatch([i \in 1..Len(s.events[k].message) |-> MergeFileAt(s.events[k].message, i)]) :
                     k \in 1..Len(s.events)} \ {<<>>}
    IN  {BaseName(p, {"/", "\\"}) : p \in paths}

\* the identifier values carried by a session's events
SessionIds(s) ==
    {Get(Details(s.events[k]), IdFields[n]) :
        k \in 1..Len(s.events), n \in 1..3} \ {<<>>}

\* the 30-second filter on the latest instants
CloseInTime(session, existing) ==
    /\ session.latest_timestamp # None
    /\ existing.latest_timestamp # None
    /\ WithinSeconds(session.latest_timestamp, existing.latest_timestamp, 30)

\* should_merge once the filter has passed
CorrelationSignal(session, existing) ==
    LET session_has_file  == HasFile(session)
        existing_has_file == HasFile(existing)
        session_has_id    == HasEventPlayingId(session)
        existing_has_id   == HasEventPlayingId(existing)
    IN  IF session_has_file /\ existing_has_file
        THEN SessionFiles(session) \cap SessionFiles(existing) # {}
        ELSE IF \/ session_has_file /\ existing_has_id
                \/ existing_has_file /\ session_has_id
        THEN TRUE
        ELSE IF session_has_id /\ existing_has_id
        THEN /\ SessionIds(session) \cap SessionIds(existing) # {}
             /\ WithinSeconds(session.latest_timestamp,
                              existing.latest_timestamp, 300)
        ELSE FALSE

ShouldMerge(session, existing) ==
    CloseInTime(session, existing) /\ CorrelationSignal(session, existing)

\* a variant that moves the instants and leaves the absorbed events behind
Absorb_InstantsOnly(existing, session) ==
    [existing EXCEPT
      !.latest_timestamp =
          IF Before(@, session.latest_timestamp)
          THEN session.latest_timestamp ELSE @,
      !.earliest_timestamp =
          IF Before(session.earliest_timestamp, @)
          THEN session.earliest_timestamp ELSE @]

\* existing_data after it has absorbed session_data
Absorb(existing, session) ==
    [existing EXCEPT
      !.events = @ \o session.events,
      !.latest_timestamp =
          IF Before(@, session.latest_timestamp)
          THEN session.latest_timestamp ELSE @,
      !.earliest_timestamp =
          IF Before(session.earliest_timestamp, @)
          THEN session.earliest_timestamp ELSE @]

\* a variant that takes the last accepted session that qualifies
MergeTarget_Last(merged, session) ==
    LET at == {k \in 1..Len(merged) : ShouldMerge(session, merged[k])}
    IN  IF at = {} THEN 0 ELSE Max(at)

\* index of the first accepted session that absorbs session, or 0
MergeTarget(merged, session) ==
    LET at == {k \in 1..Len(merged) : ShouldMerge(session, merged[k])}
    IN  IF at = {} THEN 0 ELSE Min(at)

\* one iteration of the loop over session_list
MergeSession(merged, session) ==
    LET k == MergeTarget(merged, session)
    IN  IF k = 0 THEN Append(merged, session)
        ELSE [merged EXCEPT ![k] = Absorb(@, session)]

-----------------------------------------------------------------------------
(* correlate_transcoding_events: the representative records *)

S_dash == <<"-">>
S_spaceDashSpace == <<" ","-"," ">>
S_ellipsis == <<".",".",".">>

\* d with d[key] = value
Put(d, key, value) == (key :> value) @@ d

\* for key, value in d.items(): if key not in acc and value: acc[key] = value
FirstWriterWins(acc, d) ==
    acc @@ [x \in {y \in DOMAIN d : d[y] # <<>>} |-> d[x]]

RECURSIVE CombineDetails(_, _)
CombineDetails(acc, evs) ==
    IF evs = <<>> THEN acc
    ELSE CombineDetails(FirstWriterWins(acc, Details(Head(evs))),
                        Tail(evs))

\* with a span of exactly ten minutes shown as the latest instant only
TimeRange_TenMinutes(earliest, latest) ==
    IF \/ ExceedsSeconds(latest, earliest, 600)
       \/ (Epoch(latest) - Epoch(earliest) = 600 /\ latest[3] = earliest[3])
    THEN DatetimeStr(latest)
    ELSE IF earliest # latest
    THEN DatetimeStr(earliest) \o S_spaceDashSpace \o DatetimeStr(latest)
    ELSE DatetimeStr(latest)

\* the displayed time range of a session that has instants
TimeRange(earliest, latest) ==
    IF ExceedsSeconds(latest, earliest, 600) THEN DatetimeStr(latest)
    ELSE IF earliest # latest
    THEN DatetimeStr(earliest) \o S_spaceDashSpace \o DatetimeStr(latest)
    ELSE DatetimeStr(latest)

\* with a span of a thousand lines already shortened
LineRange_Thousand(min_line, max_line) ==
    IF max_line - min_line >= 1000
    THEN IntToStr(min_line) \o S_dash \o IntToStr(min_line + 10) \o S_ellipsis
         \o IntToStr(max_line - 10) \o S_dash \o IntToStr(max_line)
    ELSE IntToStr(min_line) \o S_dash \o IntToStr(max_line)

\* the displayed line range of a session
LineRange(min_line, max_line) ==
    IF max_line - min_line > 1000
    THEN IntToStr(min_line) \o S_dash \o IntToStr(min_line + 10) \o S_ellipsis
         \o IntToStr(max_line - 10) \o S_dash \o IntToStr(max_line)
    ELSE IntToStr(min_line) \o S_dash \o IntToStr(max_line)

\* the representative event of one final session
Representative(s) ==
    LET combined == CombineDetails(<<>>, s.events)
        timed    == IF s.earliest_timestamp # None /\ s.latest_timestamp # None
                    THEN Put(combined, "time_range",
                             TimeRange(s.earliest_timestamp, s.latest_timestamp))
                    ELSE combined
        lines    == {s.events[k].line_number : k \in 1..Len(s.events)}
        ranged   == Put(timed, "line_range", LineRange(Min(lines), Max(lines)))
    IN  [transcoding_details |-> ranged,
         timestamp |-> s.latest_timestamp,
         event_type |-> "transcoding_event"]
        @@ s.events[1]
        @@ [session_id |-> s.id]

\* the sort key  x['timestamp'] or datetime.min
SortKey(x) == IF x.timestamp = None THEN DatetimeMin ELSE x.timestamp

\* x placed in a list that is in descending key order, after every element
\* whose key is not smaller: list.sort(reverse=True) is stable
InsertDescending(sorted, x) ==
    LET keep == {k \in 0..Len(sorted) :
                    \A j \in 1..k : ~Before(SortKey(sorted[j]), SortKey(x))}
        k    == Max(keep)
    IN  SubSeq(sorted, 1, k) \o <<x>> \o SubSeq(sorted, k + 1, Len(sorted))

RECURSIVE SortNewestFirst(_)
SortNewestFirst(list) ==
    IF list = <<>> THEN <<>>
    ELSE InsertDescending(SortNewestFirst(SubSeq(list, 1, Len(list) - 1)),
                          list[Len(list)])

\* correlated_sessions, sorted
FinalSessions(merged) ==
    SortNewestFirst([k \in 1..Len(merged) |-> Representative(merged[k])])

-----------------------------------------------------------------------------
(* Inputs of correlate_transcoding_events *)

M_ffmpegMovie == <<"f","f","m","p","e","g"," ","-","i"," ","f","i","l","e",":","\"","/","m","e","d","i","a","/","m","o","v","i","e",".","m","k","v","\""," ","-","c",":","v"," ","l","i","b","x","2","6","4">>
M_ffmpegOther == <<"f","f","m","p","e","g"," ","-","i"," ","f","i","l","e",":","\"","/","m","e","d","i","a","/","o","t","h","e","r",".","m","k","v","\"">>
M_timer == <<"S","t","a","r","t","P","l","a","y","b","a","c","k","T","i","m","e","r">>
M_rawItem == <<"P","l","a","y","b","a","c","k"," ","I","t","e","m","I","d","=","\"","p","1","\"">>
M_plain == <<"t","r","a","n","s","c","o","d","i","n","g"," ","s","t","a","r","t","e","d">>
ID_p1 == <<"p","1">>
ID_p2 == <<"p","2">>

NoDetails == <<>>

\* the day of the sample instants, 2025-09-25
SampleDay == DaysFromCivil(2025, 9, 25)

\* the instant s seconds into the sample day
At(s) == Instant(SampleDay, s, 0)

\* the kinds of event the inputs are built from: a message and the details
\* extracted for it
EventKinds ==
    { [message |-> M_ffmpegMovie, transcoding_details |-> NoDetails],
      [message |-> M_ffmpegOther, transcoding_details |-> NoDetails],
      [message |-> M_timer, transcoding_details |-> [event_playing_id |-> ID_p1]],
      [message |-> M_timer, transcoding_details |-> [session_playing_id |-> ID_p1]],
      [message |-> M_timer, transcoding_details |-> [event_playing_id |-> ID_p2]],
      [message |-> M_rawItem, transcoding_details |-> NoDetails],
      [message |-> M_plain, transcoding_details |-> NoDetails] }

\* no instant; 10 s apart across a five-minute boundary; 20 and 30 s apart;
\* 20 minutes apart
EventTimes == {None, At(290), At(300), At(320), At(1500)}

\* the longest input list
MaxEvents == 2

\* the event dict analyze_logs builds
Event(kind, timestamp, line_number) ==
    [message |-> kind.message,
     transcoding_details |-> kind.transcoding_details,
     timestamp |-> timestamp,
     line_number |-> line_number,
     event_type |-> "transcoding_event"]

\* the list of events of the given kinds and instants, on consecutive lines
EventList(n, f) == [i \in 1..n |-> Event(f[i][1], f[i][2], i)]

-----------------------------------------------------------------------------
(* correlate_transcoding_events as a state machine *)

\* the locals of correlate_transcoding_events on entry
CorrelateEntry ==
    /\ nextEvent = 1
    /\ sessions = <<>>
    /\ mergeIdx = 1
    /\ merged_sessions = <<>>
    /\ owner = <<>>
    /\ mergeLog = <<>>
    /\ correlated_sessions = <<>>

\* no function is being called on its own
NoCall == arg = <<>> /\ ret = <<>>

\* analyze_logs is not running: nothing collected, nothing reported
ReportIdle ==
    /\ all_errors = <<>>
    /\ found_errors = <<>>
    /\ max_errors_per_category = 2
    /\ log_paths = <<>>
    /\ nextPath = 1
    /\ categories = <<>>

InitCorrelate ==
    /\ pc = "group"
    /\ \E n \in 0..MaxEvents :
          \E f \in [1..n -> EventKinds \X EventTimes] : events = EventList(n, f)
    /\ CorrelateEntry
    /\ NoCall
    /\ ReportIdle

\* for event in events: one iteration
GroupNext ==
    /\ pc = "group"
    /\ nextEvent <= Len(events)
    /\ sessions' = GroupEvent(sessions, events[nextEvent])
    /\ nextEvent' = nextEvent + 1
    /\ UNCHANGED <<pc, events, mergeIdx, merged_sessions, owner, mergeLog,
                   correlated_sessions, callVars, reportVars>>

\* session_list = list(sessions.items()); merged_sessions = {}
StartMerge ==
    /\ pc = "group"
    /\ nextEvent > Len(events)
    /\ pc' = "merge"
    /\ mergeIdx' = 1
    /\ merged_sessions' = <<>>
    /\ UNCHANGED <<events, nextEvent, sessions, owner, mergeLog,
                   correlated_sessions, callVars, reportVars>>

\* for session_id, session_data in session_list: one iteration
MergeNext ==
    /\ pc = "merge"
    /\ mergeIdx <= Len(sessions)
    /\ LET session == sessions[mergeIdx]
           k       == MergeTarget(merged_sessions, session)
       IN  /\ merged_sessions' = MergeSession(merged_sessions, session)
           /\ owner' = Append(owner, IF k = 0 THEN Len(merged_sessions) + 1 ELSE k)
           /\ mergeLog' =
                IF k = 0 THEN mergeLog
                ELSE Append(mergeLog,
                            [absorbed |-> mergeIdx, target |-> k,
                             absorbed_latest |-> session.latest_timestamp,
                             target_latest |-> merged_sessions[k].latest_timestamp])
    /\ mergeIdx' = mergeIdx + 1
    /\ UNCHANGED <<pc, events, nextEvent, sessions, correlated_sessions,
                   callVars, reportVars>>

\* the representative records, sorted, returned
Finalize ==
    /\ pc = "merge"
    /\ mergeIdx > Len(sessions)
    /\ correlated_sessions' = FinalSessions(merged_sessions)
    /\ pc' = "done"
    /\ UNCHANGED <<events, nextEvent, sessions, mergeIdx, merged_sessions,
                   owner, mergeLog, callVars, reportVars>>

NextCorrelate == GroupNext \/ StartMerge \/ MergeNext \/ Finalize

SpecCorrelate == InitCorrelate /\ [][NextCorrelate]_vars

-----------------------------------------------------------------------------
(* A busy server: one playback event every 30 seconds *)

\* the longest such list
MaxChain == 12

S_p == <<"p">>

\* the i-th event of the list: an encoder command line for movie.mkv, or a
\* playback-start event of a session of its own (event_playing_id p<i>)
ChainEvent(i, kind) ==
    IF kind = "file"
    THEN Event([message |-> M_ffmpegMovie, transcoding_details |-> NoDetails],
               At(30 * (i - 1)), i)
    ELSE Event([message |-> M_timer,
                transcoding_details |-> [event_playing_id |-> S_p \o IntToStr(i)]],
               At(30 * (i - 1)), i)

InitChain ==
    /\ pc = "group"
    /\ \E n \in 1..MaxChain :
          \E f \in [1..n -> {"file", "id"}] :
              events = [i \in 1..n |-> ChainEvent(i, f[i])]
    /\ CorrelateEntry
    /\ NoCall
    /\ ReportIdle

SpecChain == InitChain /\ [][NextCorrelate]_vars

-----------------------------------------------------------------------------
(* Claims about session correlation *)

\* the identifier values in the details of one event
EventIds(event) ==
    {Get(event.transcoding_details, IdFields[n]) : n \in 1..3} \ {<<>>}

\* the message references a file path and the details carry no identifier
FileOnly(event) ==
    /\ Contains(event.message, S_file)
    /\ EventIds(event) = {}

\* the details carry an event or session playing id, and nothing in the
\* message references a file path
IdOnly(event) ==
    /\ ~Contains(event.message, S_file)
    /\ \/ Get(event.transcoding_details, "event_playing_id") # <<>>
       \/ Get(event.transcoding_details, "session_playing_id") # <<>>

\* C1: when correlate_transcoding_events has returned, no final session
\* holds two provisional sessions whose latest instants differ by more than
\* 300 seconds, and every absorption was preceded by a passed 30-second
\* test between the latest instants of the absorbed session and its target.
C1_MergedSessionsStayClose ==
    pc = "done" =>
        /\ \A i, j \in 1..Len(sessions) :
              ( /\ owner[i] = owner[j]
                /\ sessions[i].latest_timestamp # None
                /\ sessions[j].latest_timestamp # None )
              => WithinSeconds(sessions[i].latest_timestamp,
                               sessions[j].latest_timestamp, 300)
        /\ \A m \in 1..Len(mergeLog) :
              /\ mergeLog[m].absorbed_latest # None
              /\ mergeLog[m].target_latest # None
              /\ WithinSeconds(mergeLog[m].absorbed_latest,
                               mergeLog[m].target_latest, 30)

\* the two input events are a file-only and an identifier-only event, in
\* either order, with instants at most 30 seconds apart
C2_Case ==
    /\ Len(events) = 2
    /\ \/ FileOnly(events[1]) /\ IdOnly(events[2])
       \/ IdOnly(events[1]) /\ FileOnly(events[2])
    /\ events[1].timestamp # None
    /\ events[2].timestamp # None
    /\ WithinSeconds(events[1].timestamp, events[2].timestamp, 30)

\* C2: a file-path event and an identifier-only event (event or session
\* playing id) at most 30 seconds apart come back as exactly one session
\* that contains both events, in either input order.
C2_FileAndIdMergeIntoOne ==
    (pc = "done" /\ C2_Case) =>
        /\ Len(correlated_sessions) = 1
        /\ Len(merged_sessions) = 1
        /\ merged_sessions[1].events \in {events, <<events[2], events[1]>>}

\* the two input events carry a common identifier value and their instants
\* are exactly 20 minutes apart
C3_Case ==
    /\ Len(events) = 2
    /\ EventIds(events[1]) \cap EventIds(events[2]) # {}
    /\ events[1].timestamp # None
    /\ events[2].timestamp # None
    /\ Epoch(events[2].timestamp) - Epoch(events[1].timestamp) \in {1200, -1200}
    /\ events[1].timestamp[3] = events[2].timestamp[3]

\* C3: two events with the same session identifier, 20 minutes apart, are
\* returned as two separate sessions.
C3_SameIdFarApartStaySeparate ==
    (pc = "done" /\ C3_Case) =>
        /\ Len(correlated_sessions) = 2
        /\ Len(merged_sessions) = 2
        /\ \A k \in 1..2 : Len(merged_sessions[k].events) = 1

\* such a pair has been correlated
C3_Witness == pc = "done" /\ C3_Case /\ Len(correlated_sessions) = 2

-----------------------------------------------------------------------------
(* parse_log_line *)

\* what a call produced: a value, or an exception that left the function
Returned(v) == [returned |-> v]
Raised(e) == [raised |-> e]
HasRaised(r) == "raised" \in DOMAIN r

\* the locals of correlate_transcoding_events while it is not running
CorrelateIdle == events = <<>> /\ CorrelateEntry

\* s[i:i+1]
CharAt(s, i) == IF i >= 1 /\ i <= Len(s) THEN s[i] ELSE ""

\* str.strip()
Strip(s) ==
    LET kept == {j \in 1..Len(s) : ~IsSpace(s[j])}
    IN  IF kept = {} THEN <<>> ELSE SubSeq(s, Min(kept), Max(kept))

UpperChars == <<"A","B","C","D","E","F","G","H","I","J","K","L","M",
                "N","O","P","Q","R","S","T","U","V","W","X","Y","Z">>
LowerChars == <<"a","b","c","d","e","f","g","h","i","j","k","l","m",
                "n","o","p","q","r","s","t","u","v","w","x","y","z">>

\* str.lower()
Lower(s) ==
    [i \in 1..Len(s) |->
        IF \E n \in 1..26 : UpperChars[n] = s[i]
        THEN LowerChars[CHOOSE n \in 1..26 : UpperChars[n] = s[i]]
        ELSE s[i]]

\* str.upper()
Upper(s) ==
    [i \in 1..Len(s) |->
        IF \E n \in 1..26 : LowerChars[n] = s[i]
        THEN UpperChars[CHOOSE n \in 1..26 : LowerChars[n] = s[i]]
        ELSE s[i]]

\* where a greedy \d* begun at i ends
DigitsEnd(s, i) ==
    Min({j \in i..(Len(s) + 1) : j = Len(s) + 1 \/ ~IsDigit(s[j])})

\* json.loads.  A decoded string is its text; an integer is <<"int", its
\* digits>>, an object <<"object", the dict>>, an array <<"array", the
\* list>>, a literal <<its name>>.  The decoder is modelled for text without
\* backslashes, signs, fractions and exponents.  A result is the value and
\* the index after it, or the exception raised.
S_null == <<"n","u","l","l">>
S_true == <<"t","r","u","e">>
S_false == <<"f","a","l","s","e">>

\* sys.get_int_max_str_digits(): int() of a longer run of digits raises
\* ValueError
MaxStrDigits == 4300

JsonError(kind) == [error |-> kind]
IsJsonError(r) == "error" \in DOMAIN r

\* py_scanstring, i just after the opening quote
JsonString(s, i) ==
    LET e == RunEnd(s, i, {"\""})
    IN  IF e > Len(s) THEN JsonError("JSONDecodeError")
        ELSE [value |-> Slice(s, i, e), end |-> e + 1]

\* an integer literal at i: (0|[1-9]\d*), converted with int()
JsonNumber(s, i) ==
    LET e == IF s[i] = "0" THEN i + 1 ELSE DigitsEnd(s, i)
    IN  IF e - i > MaxStrDigits THEN JsonError("ValueError")
        ELSE [value |-> <<"int", Slice(s, i, e)>>, end |-> e]

RECURSIVE JsonValue(_, _)
RECURSIVE JsonMembers(_, _, _)
RECURSIVE JsonElements(_, _, _)

\* JSONObject, i just after the brace
JsonObject(s, i) ==
    LET j == SkipWs(s, i)
    IN  IF CharAt(s, j) = "}" THEN [value |-> <<"object", <<>>>>, end |-> j + 1]
        ELSE IF CharAt(s, j) # "\"" THEN JsonError("JSONDecodeError")
        ELSE JsonMembers(s, j + 1, <<>>)

\* JSONArray, i just after the bracket
JsonArray(s, i) ==
    LET j == SkipWs(s, i)
    IN  IF CharAt(s, j) = "]" THEN [value |-> <<"array", <<>>>>, end |-> j + 1]
        ELSE JsonElements(s, j, <<>>)

\* scan_once
JsonValue(s, i) ==
    LET c == CharAt(s, i)
    IN  CASE c = "\"" -> JsonString(s, i + 1)
          [] c = "{" -> JsonObject(s, i + 1)
          [] c = "[" -> JsonArray(s, i + 1)
          [] IsDigit(c) -> JsonNumber(s, i)
          [] StartsAt(s, i, S_null) -> [value |-> <<"null">>, end |-> i + 4]
          [] StartsAt(s, i, S_true) -> [value |-> <<"true">>, end |-> i + 4]
          [] StartsAt(s, i, S_false) -> [value |-> <<"false">>, end |-> i + 5]
          [] OTHER -> JsonError("JSONDecodeError")

\* the member loop of JSONObject, i just after the opening quote of a key;
\* a repeated key keeps its last value
JsonMembers(s, i, acc) ==
    LET k == JsonString(s, i)
    IN  IF IsJsonError(k) THEN k
        ELSE
        LET c == SkipWs(s, k.end)
        IN  IF CharAt(s, c) # ":" THEN JsonError("JSONDecodeError")
            ELSE
            LET v == JsonValue(s, SkipWs(s, c + 1))
            IN  IF IsJsonError(v) THEN v
                ELSE
                LET pairs == Put(acc, k.value, v.value)
                    d     == SkipWs(s, v.end)
                    q     == SkipWs(s, d + 1)
                IN  IF CharAt(s, d) = "}"
                    THEN [value |-> <<"object", pairs>>, end |-> d + 1]
                    ELSE IF CharAt(s, d) # "," \/ CharAt(s, q) # "\""
                    THEN JsonError("JSONDecodeError")
                    ELSE JsonMembers(s, q + 1, pairs)

\* the element loop of JSONArray, i at the start of an element
JsonElements(s, i, acc) ==
    LET v == JsonValue(s, i)
    IN  IF IsJsonError(v) THEN v
        ELSE
        LET values == Append(acc, v.value)
            d      == SkipWs(s, v.end)
        IN  IF CharAt(s, d) = "]"
            THEN [value |-> <<"array", values>>, end |-> d + 1]
            ELSE IF CharAt(s, d) # "," THEN JsonError("JSONDecodeError")
            ELSE JsonElements(s, SkipWs(s, d + 1), values)

\* json.loads(s): one value, then nothing but whitespace
JsonLoads(s) ==
    LET r == JsonValue(s, SkipWs(s, 1))
    IN  IF IsJsonError(r) THEN r
        ELSE IF SkipWs(s, r.end) # Len(s) + 1 THEN JsonError("JSONDecodeError")
        ELSE r

K_t == <<"@","t">>
K_l == <<"@","l">>
K_m == <<"@","m">>
K_x == <<"@","x">>
K_SourceContext == <<"S","o","u","r","c","e","C","o","n","t","e","x","t">>
S_ffmpeg == <<"f","f","m","p","e","g">>
S_FFmpeg == <<"F","F","m","p","e","g">>

\* the dataclass LogEntry
LogEntry(timestamp, level, message, category, exception, raw_line) ==
    [timestamp |-> timestamp, level |-> level, message |-> message,
     category |-> category, exception |-> exception, raw_line |-> raw_line]

\* no match
NoMatch == [end |-> 0]

\* \[([^\]]+)\] at i: the group and the index after the match
BracketAt(s, i) ==
    LET e == RunEnd(s, i + 1, {"]"})
    IN  IF CharAt(s, i) = "[" /\ e <= Len(s) /\ e > i + 1
        THEN [group |-> Slice(s, i + 1, e), end |-> e + 1]
        ELSE NoMatch

\* \[([^\]]+)\]\s*\[([^\]]+)\]\s* at the start of the line
TwoBrackets(line) ==
    LET b1 == BracketAt(line, 1)
        b2 == BracketAt(line, SkipWs(line, b1.end))
    IN  IF b1.end = 0 \/ b2.end = 0 THEN NoMatch
        ELSE [timestamp |-> b1.group, level |-> b2.group,
              end |-> SkipWs(line, b2.end)]

\* the rest of the line from i
Rest(line, i) == SubSeq(line, i, Len(line))

\* [timestamp] [level] [category] message
StandardFormat(line) ==
    LET h  == TwoBrackets(line)
        b3 == BracketAt(line, h.end)
    IN  IF h.end = 0 \/ b3.end = 0 THEN NoMatch
        ELSE [end |-> Len(line) + 1,
              entry |-> LogEntry(h.timestamp, Strip(h.level),
                                 Strip(Rest(line, SkipWs(line, b3.end))),
                                 Strip(b3.group), <<>>, line)]

\* [timestamp] [level] category: message  (the category runs to the first
\* colon)
CategoryColonFormat(line) ==
    LET h     == TwoBrackets(line)
        colon == RunEnd(line, h.end, {":"})
    IN  IF h.end = 0 \/ colon > Len(line) THEN NoMatch
        ELSE [end |-> Len(line) + 1,
              entry |-> LogEntry(h.timestamp, Strip(h.level),
                                 Strip(Rest(line, SkipWs(line, colon + 1))),
                                 Strip(Slice(line, h.end, colon)), <<>>, line)]

\* [timestamp] [level] message, of category FFmpeg when the message names
\* ffmpeg in any case
TwoBracketFormat(line) ==
    LET h       == TwoBrackets(line)
        message == Rest(line, h.end)
    IN  IF h.end = 0 THEN NoMatch
        ELSE [end |-> Len(line) + 1,
              entry |-> LogEntry(h.timestamp, Strip(h.level), Strip(message),
                                 IF Contains(Lower(message), S_ffmpeg)
                                 THEN S_FFmpeg ELSE <<>>,
                                 <<>>, line)]

\* the entry of a line no format matches
Fallback(line) == LogEntry(<<>>, <<>>, line, <<>>, <<>>, line)

\* the three bracket formats in turn, then the fallback
ParseBracketFormats(line) ==
    IF StandardFormat(line).end # 0 THEN StandardFormat(line).entry
    ELSE IF CategoryColonFormat(line).end # 0 THEN CategoryColonFormat(line).entry
    ELSE IF TwoBracketFormat(line).end # 0 THEN TwoBracketFormat(line).entry
    ELSE Fallback(line)

\* the entry of a decoded JSON object
JsonEntry(data, line) ==
    LogEntry(Get(data, K_t), Get(data, K_l), Get(data, K_m),
             Get(data, K_SourceContext), Get(data, K_x), line)

\* the entry of a stripped line that is not empty
ParseStripped(line) ==
    IF line[1] # "{" THEN Returned(ParseBracketFormats(line))
    ELSE TheOne({IF ~IsJsonError(json) THEN Returned(JsonEntry(json.value[2], line))
                 ELSE IF json.error # "JSONDecodeError" THEN Raised(json.error)
                 ELSE Returned(ParseBracketFormats(line)) :
                 json \in {JsonLoads(line)}})

\* parse_log_line: only json.JSONDecodeError is caught
ParseLogLine(raw) ==
    TheOne({IF line = <<>> THEN Returned(None) ELSE ParseStripped(line) :
            line \in {Strip(raw)}})

\* the pieces the sample lines are made of
F_bracketed == <<"[","a","]">>
F_key == <<"\"","@","m","\"",":">>
F_str == <<"\"","h","i","\"">>

Fragments ==
    {F_bracketed, <<"[">>, <<"]">>, <<":">>, <<" ">>, <<"x">>, S_FFmpeg,
     <<"{">>, <<"}">>, F_key, F_str, <<"1">>}

\* the most pieces in a sample line
MaxFragments == 4

RECURSIVE Concat(_)
Concat(parts) ==
    IF parts = <<>> THEN <<>> ELSE Head(parts) \o Concat(Tail(parts))

\* an integer literal of n digits
Digits(n) == [i \in 1..n |-> "1"]

\* objects with a long integer in them: as long as int() converts, and one
\* digit longer
LongNumberLines ==
    {Concat(<<pre, Digits(n), post>>) :
        pre \in {<<"{">> \o F_key, <<"{">> \o F_key \o F_str \o <<",">> \o F_key},
        n \in {MaxStrDigits, MaxStrDigits + 1},
        post \in {<<"}">>, <<"}", " ">>, <<>>}}

InitParse ==
    /\ pc = "parse_log_line"
    /\ \/ \E n \in 0..MaxFragments :
             \E f \in [1..n -> Fragments] : arg = Concat(f)
       \/ arg \in LongNumberLines
    /\ ret = <<>>
    /\ CorrelateIdle
    /\ ReportIdle

\* entry = self.parse_log_line(line)
ParseLine ==
    /\ pc = "parse_log_line"
    /\ ret' = ParseLogLine(arg)
    /\ pc' = "returned"
    /\ UNCHANGED <<corrVars, reportVars, arg>>

NextParse == ParseLine

SpecParse == InitParse /\ [][NextParse]_vars

\* C4: parse_log_line never raises; a line that is blank after trimming
\* gives None and every other line gives one entry; a line that starts with
\* a brace and is not valid JSON gives the fallback entry (the whole trimmed
\* line as message, empty timestamp, level and category).
C4_ParseLogLineIsTotal ==
    pc = "returned" =>
        LET line == Strip(arg)
        IN  /\ ~HasRaised(ret)
            /\ (line = <<>>) <=> (DOMAIN ret.returned = {})
            /\ ( /\ line # <<>>
                 /\ line[1] = "{"
                 /\ IsJsonError(JsonLoads(line)) )
               => ret.returned = Fallback(line)

-----------------------------------------------------------------------------
(* is_transcoding_event, is_directstream_event *)

S_ffprobe == <<"f","f","p","r","o","b","e">>
S_direct == <<"d","i","r","e","c","t">>
S_play == <<"p","l","a","y">>
S_method == <<"m","e","t","h","o","d">>
S_play_method == <<"p","l","a","y","_","m","e","t","h","o","d">>
S_transcode == <<"t","r","a","n","s","c","o","d","e">>
S_dash_i == <<"-","i">>
S_pipe == <<"p","i","p","e",":">>
S_http == <<"h","t","t","p">>
S_colonSlashSlash == <<":","/","/">>
S_concat == <<"c","o","n","c","a","t",":">>
S_h264_nvenc == <<"h","2","6","4","_","n","v","e","n","c">>
S_libx264 == <<"l","i","b","x","2","6","4">>
S_hevc_nvenc == <<"h","e","v","c","_","n","v","e","n","c">>
S_libx265 == <<"l","i","b","x","2","6","5">>
S_started == <<"s","t","a","r","t","e","d">>
S_transcod == <<"t","r","a","n","s","c","o","d">>
S_start == <<"s","t","a","r","t">>
S_startplaybacktimer == <<"s","t","a","r","t","p","l","a","y","b","a","c","k","t","i","m","e","r">>
S_event_ == <<"e","v","e","n","t","_">>
S_session_ == <<"s","e","s","s","i","o","n","_">>
S_directstream == <<"d","i","r","e","c","t","s","t","r","e","a","m">>
S_remux == <<"r","e","m","u","x">>

\* f"{entry.message} {entry.category}".lower()
FullText(entry) == Lower(entry.message \o <<" ">> \o entry.category)

\* re.search of first.*second (t is lower case already, so IGNORECASE
\* changes nothing)
SearchThen(t, first, second) ==
    \E i \in 1..Len(t) :
        /\ StartsAt(t, i, first)
        /\ \E j \in (i + Len(first))..Len(t) : StartsAt(t, j, second)

\* direct\s*play
SearchDirectPlay(t) ==
    \E i \in 1..Len(t) :
        /\ StartsAt(t, i, S_direct)
        /\ StartsAt(t, SkipWs(t, i + Len(S_direct)), S_play)

\* where (?:PlayMethod|Play\s*method|play_method) matched at i can end
PlayMethodEnds(t, i) ==
    {e \in 1..(Len(t) + 1) :
        \/ /\ StartsAt(t, i, S_play)
           /\ StartsAt(t, SkipWs(t, i + Len(S_play)), S_method)
           /\ e = SkipWs(t, i + Len(S_play)) + Len(S_method)
        \/ /\ StartsAt(t, i, S_play_method)
           /\ e = i + Len(S_play_method)}

\* (?:PlayMethod|Play\s*method|play_method)\s*[:=].*<method>
SearchPlayMethod(t, method) ==
    \E i \in 1..Len(t) : \E e \in PlayMethodEnds(t, i) :
        LET c == SkipWs(t, e)
        IN  /\ CharAt(t, c) \in {":", "="}
            /\ \E j \in (c + 1)..Len(t) : StartsAt(t, j, method)

\* (?:["']?(?:file:|pipe:|https?://|concat:)|\S) at k
InputAt(t, k) ==
    LET q == IF CharAt(t, k) \in {"\"", "'"} THEN {k, k + 1} ELSE {k}
    IN  \/ \E p \in q :
              \/ StartsAt(t, p, S_file)
              \/ StartsAt(t, p, S_pipe)
              \/ StartsAt(t, p, S_http \o S_colonSlashSlash)
              \/ StartsAt(t, p, S_http \o <<"s">> \o S_colonSlashSlash)
              \/ StartsAt(t, p, S_concat)
        \/ (k <= Len(t) /\ ~IsSpace(t[k]))

\* ffmpeg.*-i\s*(?:...): after -i the \s* may stop at any of the blanks
SearchFfmpegInput(t) ==
    \E i \in 1..Len(t) :
        /\ StartsAt(t, i, S_ffmpeg)
        /\ \E j \in (i + Len(S_ffmpeg))..Len(t) :
              /\ StartsAt(t, j, S_dash_i)
              /\ \E k \in (j + 2)..SkipWs(t, j + 2) : InputAt(t, k)

\* (?:h264_nvenc|libx264|hevc_nvenc|libx265)
SearchEncoder(t) ==
    \E w \in {S_h264_nvenc, S_libx264, S_hevc_nvenc, S_libx265} : Contains(t, w)

\* StartPlaybackTimer\s*:\s*(?:event_|session_)
SearchPlaybackTimer(t) ==
    \E i \in 1..Len(t) :
        LET c == SkipWs(t, i + Len(S_startplaybacktimer))
            v == SkipWs(t, c + 1)
        IN  /\ StartsAt(t, i, S_startplaybacktimer)
            /\ CharAt(t, c) = ":"
            /\ (StartsAt(t, v, S_event_) \/ StartsAt(t, v, S_session_))

\* any(re.search(pattern, full_text, re.IGNORECASE) for pattern in
\* transcoding_patterns)
AnyTranscodingPattern(t) ==
    \/ SearchPlayMethod(t, S_transcode)
    \/ SearchFfmpegInput(t)
    \/ SearchEncoder(t)
    \/ SearchThen(t, S_started, S_transcod)
    \/ SearchThen(t, S_transcod, S_start)
    \/ SearchPlaybackTimer(t)

\* any(... for pattern in directstream_patterns)
AnyDirectstreamPattern(t) ==
    \/ SearchPlayMethod(t, S_directstream)
    \/ SearchThen(t, S_directstream, S_start)
    \/ SearchThen(t, S_started, S_directstream)
    \/ SearchThen(t, S_remux, S_start)
    \/ SearchThen(t, S_started, S_remux)

\* a variant without the two exclusions
IsTranscodingEvent_NoExclusions(entry) == AnyTranscodingPattern(FullText(entry))

IsTranscodingEvent(entry) ==
    LET full_text == FullText(entry)
    IN  IF Contains(full_text, S_ffprobe) THEN FALSE
        ELSE IF SearchDirectPlay(full_text) THEN FALSE
        ELSE AnyTranscodingPattern(full_text)

IsDirectstreamEvent(entry) ==
    LET full_text == FullText(entry)
    IN  IF Contains(full_text, S_ffprobe) THEN FALSE
        ELSE AnyDirectstreamPattern(full_text)

\* the words the sample messages are made of
W_FFprobe == <<"F","F","p","r","o","b","e">>
W_Direct == <<"D","i","r","e","c","t">>
W_Play == <<"P","l","a","y">>
W_ffmpeg == <<"f","f","m","p","e","g"," ","-","i"," ","x">>
W_PlayMethod == <<"P","l","a","y","M","e","t","h","o","d","=">>
W_Transcode == <<"T","r","a","n","s","c","o","d","e">>
W_DirectStream == <<"D","i","r","e","c","t","S","t","r","e","a","m">>
W_timer == <<"S","t","a","r","t","P","l","a","y","b","a","c","k","T","i","m","e","r",":"," ","e","v","e","n","t","_">>

Words ==
    {W_FFprobe, W_Direct, W_Play, W_ffmpeg, W_PlayMethod, W_Transcode,
     S_started, W_DirectStream, W_timer, S_libx264}

Categories == {<<>>, W_FFprobe, W_Play}

\* the most words in a sample message
MaxWords == 3

InitClassify ==
    /\ pc = "classify"
    /\ \E n \in 0..MaxWords : \E f \in [1..n -> Words] : \E c \in Categories :
          arg = LogEntry(<<>>, <<>>, Concat(f), c, <<>>, <<>>)
    /\ ret = <<>>
    /\ CorrelateIdle
    /\ ReportIdle

\* self.is_transcoding_event(entry)
CallIsTranscodingEvent ==
    /\ pc = "classify"
    /\ ret' = Returned(IsTranscodingEvent(arg))
    /\ pc' = "is_transcoding_event"
    /\ UNCHANGED <<corrVars, reportVars, arg>>

\* self.is_directstream_event(entry)
CallIsDirectstreamEvent ==
    /\ pc = "classify"
    /\ ret' = Returned(IsDirectstreamEvent(arg))
    /\ pc' = "is_directstream_event"
    /\ UNCHANGED <<corrVars, reportVars, arg>>

NextClassify == CallIsTranscodingEvent \/ CallIsDirectstreamEvent

SpecClassify == InitClassify /\ [][NextClassify]_vars

\* the text of the entry names ffprobe, in any case
MentionsProbe(entry) == Contains(FullText(entry), S_ffprobe)

\* the text of the entry says DirectPlay or Direct Play, in any case
MentionsDirectPlay(entry) ==
    \/ Contains(FullText(entry), S_direct \o S_play)
    \/ Contains(FullText(entry), S_direct \o <<" ">> \o S_play)

\* C5: an entry whose text names ffprobe is neither a transcoding event nor
\* a direct-stream event, and an entry whose text says DirectPlay or Direct
\* Play is not a transcoding event, whatever patterns the text matches.
C5_ExclusionsDominate ==
    /\ (pc = "is_transcoding_event"
            /\ (MentionsProbe(arg) \/ MentionsDirectPlay(arg)))
        => ret.returned = FALSE
    /\ (pc = "is_directstream_event" /\ MentionsProbe(arg))
        => ret.returned = FALSE

\* an entry that names ffprobe and matches a transcoding pattern has been
\* classified
C5_Witness ==
    /\ pc = "is_transcoding_event"
    /\ MentionsProbe(arg)
    /\ AnyTranscodingPattern(FullText(arg))
    /\ ret.returned = FALSE

-----------------------------------------------------------------------------
(* parse_timestamp *)

\* \d{n} at i
DigitsAt(s, i, n) ==
    /\ i >= 1
    /\ i + n - 1 <= Len(s)
    /\ \A k \in i..(i + n - 1) : IsDigit(s[k])

\* int() of the n digits at i
Number(s, i, n) == StrToNat(SubSeq(s, i, i + n - 1))

\* \d{2}:\d{2}:\d{2} at i
TimeAt(s, i) ==
    /\ DigitsAt(s, i, 2) /\ CharAt(s, i + 2) = ":"
    /\ DigitsAt(s, i + 3, 2) /\ CharAt(s, i + 5) = ":"
    /\ DigitsAt(s, i + 6, 2)

\* \d{4}-\d{2}-\d{2}<sep>\d{2}:\d{2}:\d{2} at i
DateTimeAt(s, i, sep) ==
    /\ DigitsAt(s, i, 4) /\ CharAt(s, i + 4) = "-"
    /\ DigitsAt(s, i + 5, 2) /\ CharAt(s, i + 7) = "-"
    /\ DigitsAt(s, i + 8, 2) /\ CharAt(s, i + 10) = sep
    /\ TimeAt(s, i + 11)

\* year, month, day, hour, minute, second of such a match
DateTimeFields(s, i) ==
    <<Number(s, i, 4), Number(s, i + 5, 2), Number(s, i + 8, 2),
      Number(s, i + 11, 2), Number(s, i + 14, 2), Number(s, i + 17, 2)>>

\* \d{2}/\d{2}/\d{4} \d{2}:\d{2}:\d{2} at i
SlashDateTimeAt(s, i) ==
    /\ DigitsAt(s, i, 2) /\ CharAt(s, i + 2) = "/"
    /\ DigitsAt(s, i + 3, 2) /\ CharAt(s, i + 5) = "/"
    /\ DigitsAt(s, i + 6, 4) /\ CharAt(s, i + 10) = " "
    /\ TimeAt(s, i + 11)

\* year, month, day, hour, minute, second of such a match (%m/%d/%Y)
SlashDateTimeFields(s, i) ==
    <<Number(s, i + 6, 4), Number(s, i, 2), Number(s, i + 3, 2),
      Number(s, i + 11, 2), Number(s, i + 14, 2), Number(s, i + 17, 2)>>

\* the fields datetime accepts; the others raise ValueError
ValidFields(f) ==
    /\ f[1] >= 1
    /\ f[2] \in 1..12
    /\ f[3] >= 1 /\ f[3] <= DaysInMonth(f[1], f[2])
    /\ f[4] <= 23 /\ f[5] <= 59 /\ f[6] <= 59

\* datetime(year, month, day, hour, minute, second, microsecond)
FieldsInstant(f, us) ==
    Instant(DaysFromCivil(f[1], f[2], f[3]), f[4] * 3600 + f[5] * 60 + f[6], us)

\* datetime.max.date()
LastDay == DaysFromCivil(9999, 12, 31)

\* datetime.min.date()
FirstDay == DaysFromCivil(1, 1, 1)

\* ^(?P<dt>\d{4}-\d{2}-\d{2}T\d{2}:\d{2}:\d{2}(?:\.\d+)?)(?P<tz>Z|[+-]\d{2}:\d{2})$
IsoMatch(s) ==
    LET f  == IF CharAt(s, 20) = "." /\ DigitsAt(s, 21, 1)
              THEN DigitsEnd(s, 21) ELSE 20
        tz == Rest(s, f)
    IN  IF /\ DateTimeAt(s, 1, "T")
           /\ \/ tz = <<"Z">>
              \/ /\ Len(tz) = 6
                 /\ tz[1] \in {"+", "-"}
                 /\ DigitsAt(tz, 2, 2) /\ tz[4] = ":" /\ DigitsAt(tz, 5, 2)
        THEN [end |-> Len(s) + 1, frac_part |-> Slice(s, 21, f), tz |-> tz]
        ELSE NoMatch

Pow10 == <<1, 10, 100, 1000, 10000, 100000, 1000000>>

\* the microseconds of a fraction of at most six digits
Microseconds(frac_digits) ==
    StrToNat(frac_digits) * Pow10[6 - Len(frac_digits) + 1]

\* frac_part[:6]
FracDigits(frac_part) == SubSeq(frac_part, 1, Min({6, Len(frac_part)}))

\* the offset of the zone in seconds (Z stands for +00:00)
OffsetSeconds(tz) ==
    IF tz = <<"Z">> THEN 0
    ELSE (IF tz[1] = "-" THEN -1 ELSE 1)
         * (Number(tz, 2, 2) * 3600 + Number(tz, 5, 2) * 60)

\* datetime.fromisoformat(dt_part + tz_part).astimezone(timezone.utc)
\*     .replace(tzinfo=None)
\* fromisoformat raises ValueError for fields out of range and for an
\* offset of a day or more; astimezone raises OverflowError when the
\* result is not a datetime
IsoToNaiveUtc(s, iso) ==
    LET f      == DateTimeFields(s, 1)
        local  == FieldsInstant(f, Microseconds(FracDigits(iso.frac_part)))
        offset == OffsetSeconds(iso.tz)
        sec    == local[2] - offset
        day    == local[1] + (sec \div 86400)
    IN  IF ~ValidFields(f) \/ offset >= 86400 \/ offset <= -86400
        THEN Raised("ValueError")
        ELSE IF day < FirstDay \/ day > LastDay THEN Raised("OverflowError")
        ELSE Returned(Instant(day, sec % 86400, local[3]))

\* the least element, 0 for none
FirstIndex(S) == IF S = {} THEN 0 ELSE Min(S)

\* datetime.strptime of matched text: None stands for its ValueError
Strptime(f, us) == IF ValidFields(f) THEN FieldsInstant(f, us) ELSE None

\* (\d{4}-\d{2}-\d{2} \d{2}:\d{2}:\d{2}\.\d{3}), '%Y-%m-%d %H:%M:%S.%f'
MillisecondPattern(ts) ==
    LET i == FirstIndex({k \in 1..Len(ts) :
                            /\ DateTimeAt(ts, k, " ")
                            /\ CharAt(ts, k + 19) = "."
                            /\ DigitsAt(ts, k + 20, 3)})
    IN  IF i = 0 THEN None
        ELSE Strptime(DateTimeFields(ts, i), Number(ts, i + 20, 3) * 1000)

\* (\d{4}-\d{2}-\d{2} \d{2}:\d{2}:\d{2}), '%Y-%m-%d %H:%M:%S'
SecondPattern(ts) ==
    LET i == FirstIndex({k \in 1..Len(ts) : DateTimeAt(ts, k, " ")})
    IN  IF i = 0 THEN None ELSE Strptime(DateTimeFields(ts, i), 0)

\* (\d{2}/\d{2}/\d{4} \d{2}:\d{2}:\d{2}), '%m/%d/%Y %H:%M:%S'
SlashPattern(ts) ==
    LET i == FirstIndex({k \in 1..Len(ts) : SlashDateTimeAt(ts, k)})
    IN  IF i = 0 THEN None ELSE Strptime(SlashDateTimeFields(ts, i), 0)

\* for pattern in timestamp_patterns: the first that matches and parses
StandardTimestamp(ts) ==
    IF MillisecondPattern(ts) # None THEN MillisecondPattern(ts)
    ELSE IF SecondPattern(ts) # None THEN SecondPattern(ts)
    ELSE SlashPattern(ts)

\* parse_timestamp: only ValueError is caught
ParseTimestamp(entry) ==
    LET ts  == entry.timestamp
        iso == IsoMatch(ts)
        utc == IsoToNaiveUtc(ts, iso)
    IN  IF ts = <<>> THEN Returned(None)
        ELSE IF Contains(ts, <<"T">>) /\ iso.end # 0
                                      /\ ~(HasRaised(utc) /\ utc.raised = "ValueError")
        THEN utc
        ELSE Returned(StandardTimestamp(ts))

\* the pieces of the sample timestamps
DateTexts ==
    {<<"2","0","2","5","-","0","9","-","2","5">>,
     <<"2","0","2","4","-","0","2","-","2","9">>,
     <<"2","0","2","5","-","0","2","-","2","9">>,
     <<"0","0","0","1","-","0","1","-","0","1">>,
     <<"9","9","9","9","-","1","2","-","3","1">>,
     <<"0","9","/","2","5","/","2","0","2","5">>}

TimeTexts ==
    {<<"0","4",":","4","3",":","1","6">>,
     <<"0","0",":","0","0",":","0","0">>,
     <<"2","3",":","5","9",":","5","9">>,
     <<"2","4",":","0","0",":","0","0">>}

FractionTexts ==
    {<<>>,
     <<".","5">>,
     <<".","3","8","6">>,
     <<".","3","8","6","1","2","3">>,
     <<".","3","8","6","1","2","3","4","5","6">>,
     <<".","0","0","0","5","0","0">>}

ZoneTexts ==
    {<<>>,
     <<"Z">>,
     <<"+","0","0",":","0","0">>,
     <<"+","0","5",":","3","0">>,
     <<"-","0","4",":","0","0">>,
     <<" ","-","0","4",":","0","0">>,
     <<"+","2","4",":","0","0">>}

TimestampTexts ==
    {d \o sep \o t \o f \o z :
        d \in DateTexts, sep \in {<<"T">>, <<" ">>}, t \in TimeTexts,
        f \in FractionTexts, z \in ZoneTexts} \cup {<<>>}

\* an entry with the given timestamp field
EntryAt(ts) == LogEntry(ts, <<>>, <<>>, <<>>, <<>>, <<>>)

InitTimestamp ==
    /\ pc = "parse_timestamp"
    /\ \E ts \in TimestampTexts : arg = EntryAt(ts)
    /\ ret = <<>>
    /\ CorrelateIdle
    /\ ReportIdle

\* self.parse_timestamp(entry)
Normalize ==
    /\ pc = "parse_timestamp"
    /\ ret' = ParseTimestamp(arg)
    /\ pc' = "normalized"
    /\ UNCHANGED <<corrVars, reportVars, arg>>

\* the instant obtained is written out with str() and normalized again
NormalizeAgain ==
    /\ pc = "normalized"
    /\ ~HasRaised(ret)
    /\ ret.returned # None
    /\ arg' = EntryAt(DatetimeStr(ret.returned))
    /\ ret' = ParseTimestamp(arg')
    /\ pc' = "renormalized"
    /\ UNCHANGED <<corrVars, reportVars>>

NextTimestamp == Normalize \/ NormalizeAgain

SpecTimestamp == InitTimestamp /\ [][NextTimestamp]_vars

\* C6: when the string form of a normalized instant d has been normalized
\* again (arg.timestamp is str(d)), the result is an instant and it is d.
C6_NormalizationIsIdempotent ==
    pc = "renormalized" =>
        /\ ~HasRaised(ret)
        /\ ret.returned # None
        /\ DatetimeStr(ret.returned) = arg.timestamp

\* ts is an ISO-8601 timestamp with T and an offset: it has the shape, its
\* date and time exist, and its offset is at most 23:59
IsIsoWithOffset(ts) ==
    /\ IsoMatch(ts).end # 0
    /\ ValidFields(DateTimeFields(ts, 1))
    /\ IsoMatch(ts).tz # <<"Z">> =>
          (Number(IsoMatch(ts).tz, 2, 2) <= 23 /\ Number(IsoMatch(ts).tz, 5, 2) <= 59)

\* the local time of ts minus its offset, the fraction cut to six digits
UtcInstantOf(ts) ==
    LET f     == DateTimeFields(ts, 1)
        frac  == IsoMatch(ts).frac_part
        us    == IF frac = <<>> THEN 0
                 ELSE Microseconds(SubSeq(frac, 1, Min({6, Len(frac)})))
        sec   == f[4] * 3600 + f[5] * 60 + f[6] - OffsetSeconds(IsoMatch(ts).tz)
    IN  Instant(DaysFromCivil(f[1], f[2], f[3]) + (sec \div 86400),
                sec % 86400, us)

\* C7: for an ISO-8601 timestamp with T and an offset (Z or +/-HH:MM),
\* parse_timestamp returns the local time minus the offset (Z counting as
\* +00:00), with a fraction of more than six digits cut to its first six.
C7_IsoOffsetGivesNaiveUtc ==
    (pc = "normalized" /\ IsIsoWithOffset(arg.timestamp)) =>
        /\ ~HasRaised(ret)
        /\ ret.returned = UtcInstantOf(arg.timestamp)

-----------------------------------------------------------------------------
(* analyze_logs: the records collected are sorted and capped *)

\* list[:n]
Prefix_Whole(list, n) == list

Prefix(list, n) ==
    IF n >= 0 THEN SubSeq(list, 1, Min({n, Len(list)}))
    ELSE SubSeq(list, 1, Max({Len(list) + n, 0}))

\* correlated_events[:10]
TranscodingCap == 10

\* the error_info dict of a plain error
ErrorInfo(timestamp, line_number) ==
    [timestamp |-> timestamp, line_number |-> line_number,
     event_type |-> "error"]

\* the instants of the sample errors
PlainTimes == {None, DatetimeMin, At(290), At(300)}

\* the most errors collected for the plain category
MaxPlain == 3

\* the most sessions of a long list of playback events
MaxSessions == 11

\* the i-th event of a long list: a playback-start event of a session of
\* its own, 20 minutes after the one before
SpacedEvent(i) ==
    Event([message |-> M_timer,
           transcoding_details |-> [event_playing_id |-> S_p \o IntToStr(i)]],
          At(1200 * i), i)

\* all_errors: a category has a list once something was appended to it
Collected(errors, transcoding) ==
    [c \in {k \in {"general", "transcoding"} :
               \/ k = "general" /\ errors # <<>>
               \/ k = "transcoding" /\ transcoding # <<>>} |->
        IF c = "general" THEN errors ELSE transcoding]

\* analyze_logs at the loop over all_errors
InitReport ==
    /\ pc = "analyze"
    /\ \/ \E n \in 0..MaxPlain : \E f \in [1..n -> PlainTimes] :
          \E cap \in 0..MaxPlain :
             /\ all_errors = Collected([i \in 1..n |-> ErrorInfo(f[i], i)], <<>>)
             /\ max_errors_per_category = cap
       \/ \E n \in 0..MaxEvents : \E f \in [1..n -> EventKinds \X EventTimes] :
             /\ all_errors = Collected(<<>>, EventList(n, f))
             /\ max_errors_per_category = 2
       \/ \E n \in 0..MaxSessions :
             /\ all_errors =
                  Collected(<<ErrorInfo(At(290), 1), ErrorInfo(None, 2),
                              ErrorInfo(At(300), 3)>>,
                            [i \in 1..n |-> SpacedEvent(i)])
             /\ max_errors_per_category = 2
    /\ found_errors = <<>>
    /\ log_paths = <<>>
    /\ nextPath = 1
    /\ categories = <<>>
    /\ CorrelateIdle
    /\ NoCall

\* a category other than transcoding: errors.sort(...) in place, then
\* self.found_errors[category] = errors[:max_errors_per_category]
ReportPlain ==
    /\ pc = "analyze"
    /\ \E category \in DOMAIN all_errors \ {"transcoding"} :
          /\ category \notin DOMAIN found_errors
          /\ all_errors' = Put(all_errors, category,
                               SortNewestFirst(all_errors[category]))
          /\ found_errors' = Put(found_errors, category,
                                 Prefix(SortNewestFirst(all_errors[category]),
                                        max_errors_per_category))
    /\ UNCHANGED <<pc, corrVars, callVars, max_errors_per_category, fileVars>>

\* the transcoding category: self.correlate_transcoding_events(errors, verbose)
CallCorrelate ==
    /\ pc = "analyze"
    /\ "transcoding" \in DOMAIN all_errors
    /\ "transcoding" \notin DOMAIN found_errors
    /\ events' = all_errors["transcoding"]
    /\ pc' = "group"
    /\ UNCHANGED <<nextEvent, sessions, mergeIdx, merged_sessions, owner,
                   mergeLog, correlated_sessions, callVars, reportVars>>

\* self.found_errors[category] = correlated_events[:10]
ReportTranscoding ==
    /\ pc = "done"
    /\ "transcoding" \in DOMAIN all_errors
    /\ "transcoding" \notin DOMAIN found_errors
    /\ found_errors' = Put(found_errors, "transcoding",
                           Prefix(correlated_sessions, TranscodingCap))
    /\ pc' = "analyze"
    /\ UNCHANGED <<corrVars, callVars, all_errors, max_errors_per_category,
                   fileVars>>

NextReport ==
    \/ ReportPlain
    \/ CallCorrelate
    \/ GroupNext
    \/ StartMerge
    \/ MergeNext
    \/ Finalize
    \/ ReportTranscoding

SpecReport == InitReport /\ [][NextReport]_vars

\* the record has an instant
HasInstant(x) == x.timestamp # None

\* records with an instant come before records without one, and records
\* with instants are newest first
NewestFirst(list) ==
    \A i, j \in 1..Len(list) :
        i < j =>
            /\ HasInstant(list[j]) => HasInstant(list[i])
            /\ (HasInstant(list[i]) /\ HasInstant(list[j]))
                   => ~Before(list[i].timestamp, list[j].timestamp)

\* plain records of equal sort key are in the order of their lines
PlainEncounterOrder(list) ==
    \A i, j \in 1..Len(list) :
        (i < j /\ SortKey(list[i]) = SortKey(list[j]))
            => list[i].line_number < list[j].line_number

\* final sessions of equal sort key are in the order the merge pass
\* accepted them
SessionEncounterOrder(list) ==
    \A i, j \in 1..Len(list) :
        (i < j /\ SortKey(list[i]) = SortKey(list[j]))
            => IndexOfId(merged_sessions, list[i].session_id)
                   < IndexOfId(merged_sessions, list[j].session_id)

\* C8: every reported list (a plain-error category, the final sessions)
\* has its records with an instant before those without one and newest
\* first, and records of equal sort key in encounter order.
C8_ReportedListsNewestFirst ==
    /\ "general" \in DOMAIN found_errors =>
          /\ NewestFirst(found_errors["general"])
          /\ PlainEncounterOrder(found_errors["general"])
    /\ "transcoding" \in DOMAIN found_errors =>
          /\ NewestFirst(found_errors["transcoding"])
          /\ SessionEncounterOrder(found_errors["transcoding"])

\* C9: the plain category holds at most max_errors_per_category records,
\* the first ones of its newest-first order, and the transcoding category
\* holds at most 10 session records, the first ones of the sorted sessions.
C9_ReportedListsCapped ==
    /\ "general" \in DOMAIN found_errors =>
          /\ Len(found_errors["general"]) <= max_errors_per_category
          /\ Len(found_errors["general"])
                = Min({max_errors_per_category, Len(all_errors["general"])})
          /\ found_errors["general"]
                = SubSeq(all_errors["general"], 1, Len(found_errors["general"]))
    /\ "transcoding" \in DOMAIN found_errors =>
          /\ Len(found_errors["transcoding"]) <= 10
          /\ Len(found_errors["transcoding"])
                = Min({10, Len(correlated_sessions)})
          /\ found_errors["transcoding"]
                = SubSeq(correlated_sessions, 1, Len(found_errors["transcoding"]))

\* both categories were cut: three errors of which the default two are
\* kept, and more than ten sessions of which ten are kept
C9_Witness ==
    /\ DOMAIN found_errors = {"general", "transcoding"}
    /\ Len(all_errors["general"]) > max_errors_per_category
    /\ Len(found_errors["general"]) = 2
    /\ Len(correlated_sessions) > 10
    /\ Len(found_errors["transcoding"]) = 10

-----------------------------------------------------------------------------
(* is_error_line *)

S_exited == <<"e","x","i","t","e","d">>
S_with == <<"w","i","t","h">>
S_code == <<"c","o","d","e">>

error_levels == {<<"E","R","R","O","R">>, <<"E","R","R">>, <<"F","A","T","A","L">>, <<"F","T","L">>, <<"C","R","I","T","I","C","A","L">>}

error_keywords == {<<"e","r","r","o","r">>, <<"e","x","c","e","p","t","i","o","n">>, <<"f","a","i","l","e","d">>, <<"f","a","i","l","u","r","e">>, <<"c","r","i","t","i","c","a","l">>, <<"f","a","t","a","l">>}

\* the index after \s+ at i, or 0 when no blank is there
Blanks(s, i) == IF IsSpace(CharAt(s, i)) THEN SkipWs(s, i) ELSE 0

\* exited\s+with\s+code\s+(\d+) at i of the lowered message: the group, or <<>>
ExitCodeAt(t, i) ==
    LET a == IF StartsAt(t, i, S_exited) THEN Blanks(t, i + Len(S_exited)) ELSE 0
        b == IF a # 0 /\ StartsAt(t, a, S_with) THEN Blanks(t, a + Len(S_with)) ELSE 0
        c == IF b # 0 /\ StartsAt(t, b, S_code) THEN Blanks(t, b + Len(S_code)) ELSE 0
    IN  IF c # 0 /\ DigitsEnd(t, c) > c THEN Slice(t, c, DigitsEnd(t, c)) ELSE <<>>

\* int(digits) != 0
NonZero(digits) == \E j \in 1..Len(digits) : digits[j] # "0"

IsErrorLine(entry) ==
    LET message_lower == Lower(entry.message)
        exit_code == FirstMatch([i \in 1..Len(message_lower) |->
                                    ExitCodeAt(message_lower, i)])
    IN  \/ Upper(entry.level) \in error_levels
        \/ exit_code # <<>> /\ NonZero(exit_code)
        \/ \E keyword \in error_keywords : Contains(message_lower, keyword)

-----------------------------------------------------------------------------
(* analyze_ffmpeg_command *)

S_filter_complex == <<"f","i","l","t","e","r","_","c","o","m","p","l","e","x">>
S_subtitles == <<"s","u","b","t","i","t","l","e","s","=">>
S_dotAss == <<".","a","s","s">>
S_dotSrt == <<".","s","r","t">>
S_dotVtt == <<".","v","t","t">>
S_overlay_cuda == <<"o","v","e","r","l","a","y","_","c","u","d","a">>
S_overlay == <<"o","v","e","r","l","a","y","=">>
R_BurnAss == <<"B","u","r","n","i","n","g"," ","A","S","S"," ","s","u","b","t","i","t","l","e","s"," ","i","n","t","o"," ","v","i","d","e","o"," ","s","t","r","e","a","m">>
R_BurnSrt == <<"B","u","r","n","i","n","g"," ","S","R","T"," ","s","u","b","t","i","t","l","e","s"," ","i","n","t","o"," ","v","i","d","e","o"," ","s","t","r","e","a","m">>
R_BurnVtt == <<"B","u","r","n","i","n","g"," ","W","e","b","V","T","T"," ","s","u","b","t","i","t","l","e","s"," ","i","n","t","o"," ","v","i","d","e","o"," ","s","t","r","e","a","m">>
R_Burn == <<"B","u","r","n","i","n","g"," ","s","u","b","t","i","t","l","e","s"," ","i","n","t","o"," ","v","i","d","e","o"," ","s","t","r","e","a","m">>
R_Overlay == <<"O","v","e","r","l","a","y","i","n","g"," ","s","u","b","t","i","t","l","e","s"," ","o","n","t","o"," ","v","i","d","e","o">>
S_scale == <<"s","c","a","l","e">>
S_cuda == <<"_","c","u","d","a">>
S_wEq == <<"w","=">>
S_colonH == <<":","h","=">>
R_ClientRequires == <<"C","l","i","e","n","t"," ","r","e","q","u","i","r","e","s"," ">>
R_resolution == <<" ","r","e","s","o","l","u","t","i","o","n">>
S_codecCopy == <<"-","c","o","d","e","c",":","a",":","0"," ","c","o","p","y">>
S_cCopy == <<"-","c",":","a"," ","c","o","p","y">>
S_aac == <<"a","a","c">>
S_ac3 == <<"a","c","3">>
R_Aac == <<"C","l","i","e","n","t"," ","r","e","q","u","i","r","e","s"," ","A","A","C"," ","a","u","d","i","o"," ","f","o","r","m","a","t">>
R_Ac3 == <<"C","l","i","e","n","t"," ","r","e","q","u","i","r","e","s"," ","A","C","3"," ","a","u","d","i","o"," ","f","o","r","m","a","t">>
S_dashAc == <<"-","a","c"," ">>
R_audioChannels == <<" ","a","u","d","i","o"," ","c","h","a","n","n","e","l","s">>
R_H264 == <<"C","l","i","e","n","t"," ","r","e","q","u","i","r","e","s"," ","H",".","2","6","4"," ","v","i","d","e","o"," ","c","o","d","e","c">>
R_Hevc == <<"C","l","i","e","n","t"," ","r","e","q","u","i","r","e","s"," ","H",".","2","6","5","/","H","E","V","C"," ","v","i","d","e","o"," ","c","o","d","e","c">>
S_bv == <<"-","b",":","v">>
R_BandwidthLimited == <<"B","a","n","d","w","i","d","t","h"," ","l","i","m","i","t","e","d"," ","t","o"," ">>
R_kbps == <<" ","k","b","p","s">>
S_dashHwaccel == <<"-","h","w","a","c","c","e","l">>
S_hwaccel == <<"h","w","a","c","c","e","l">>
R_Using == <<"U","s","i","n","g"," ">>
R_hardwareAcceleration == <<" ","h","a","r","d","w","a","r","e"," ","a","c","c","e","l","e","r","a","t","i","o","n">>
R_UsingHardware == <<"U","s","i","n","g"," ","h","a","r","d","w","a","r","e"," ","a","c","c","e","l","e","r","a","t","i","o","n">>
S_semicolon == <<";"," ">>
S_libfdk_aac == <<"l","i","b","f","d","k","_","a","a","c">>

\* the subtitle reason, if any
SubtitleReasons(cmd) ==
    IF Contains(cmd, S_filter_complex) /\ Contains(cmd, S_subtitles)
    THEN IF Contains(cmd, S_dotAss) THEN <<R_BurnAss>>
         ELSE IF Contains(cmd, S_dotSrt) THEN <<R_BurnSrt>>
         ELSE IF Contains(cmd, S_dotVtt) THEN <<R_BurnVtt>>
         ELSE <<R_Burn>>
    ELSE IF Contains(cmd, S_overlay_cuda) \/ Contains(cmd, S_overlay)
    THEN <<R_Overlay>>
    ELSE <<>>

\* scale(?:_cuda)?=(?:w=)?(\d+)(?::h=|:)(\d+) at i: <<width, height>>, or <<>>
ScaleAt(s, i) ==
    LET a  == i + Len(S_scale)
        b  == IF StartsAt(s, a, S_cuda) THEN a + Len(S_cuda) ELSE a
        c  == IF StartsAt(s, b + 1, S_wEq) THEN b + 1 + Len(S_wEq) ELSE b + 1
        e  == DigitsEnd(s, c)
        f  == IF StartsAt(s, e, S_colonH) THEN e + Len(S_colonH) ELSE e + 1
        g  == DigitsEnd(s, f)
    IN  IF /\ StartsAt(s, i, S_scale)
           /\ CharAt(s, b) = "="
           /\ c <= Len(s) /\ e > c
           /\ CharAt(s, e) = ":"
           /\ f <= Len(s) /\ g > f
        THEN <<Slice(s, c, e), Slice(s, f, g)>>
        ELSE <<>>

ScaleReasons(cmd) ==
    LET scale_match == FirstMatch([i \in 1..Len(cmd) |-> ScaleAt(cmd, i)])
    IN  IF scale_match = <<>> THEN <<>>
        ELSE <<R_ClientRequires \o scale_match[1] \o <<"x">> \o scale_match[2]
               \o R_resolution>>

\* -ac (\d+) at i: the group, or <<>>
ChannelsAt(s, i) ==
    LET c == i + Len(S_dashAc)
    IN  IF StartsAt(s, i, S_dashAc) /\ c <= Len(s) /\ DigitsEnd(s, c) > c
        THEN Slice(s, c, DigitsEnd(s, c))
        ELSE <<>>

AudioReasons(cmd) ==
    LET audio_copy == Contains(cmd, S_codecCopy) \/ Contains(cmd, S_cCopy)
        ac_match   == FirstMatch([i \in 1..Len(cmd) |-> ChannelsAt(cmd, i)])
    IN  IF audio_copy THEN <<>>
        ELSE (IF Contains(cmd, S_libfdk_aac) \/ Contains(cmd, S_aac) THEN <<R_Aac>>
              ELSE IF Contains(cmd, S_ac3) THEN <<R_Ac3>>
              ELSE <<>>)
             \o (IF ac_match = <<>> THEN <<>>
                 ELSE <<R_ClientRequires \o ac_match \o R_audioChannels>>)

VideoReasons(cmd) ==
    IF Contains(cmd, S_h264_nvenc) \/ Contains(cmd, S_libx264) THEN <<R_H264>>
    ELSE IF Contains(cmd, S_hevc_nvenc) \/ Contains(cmd, S_libx265) THEN <<R_Hevc>>
    ELSE <<>>

\* -b:v\s+(\d+)([kKmM]?) at i: <<digits, unit>>, or <<>>
BitrateAt(s, i) ==
    LET c == IF StartsAt(s, i, S_bv) THEN Blanks(s, i + Len(S_bv)) ELSE 0
        e == DigitsEnd(s, c)
    IN  IF c # 0 /\ c <= Len(s) /\ e > c
        THEN <<Slice(s, c, e),
               IF CharAt(s, e) \in {"k", "K", "m", "M"} THEN <<CharAt(s, e)>> ELSE <<>>>>
        ELSE <<>>

\* with a mega suffix counted as 1024 kilobits
BitrateReasons_Binary(cmd) ==
    LET bitrate_match == FirstMatch([i \in 1..Len(cmd) |-> BitrateAt(cmd, i)])
        bitrate_value == StrToNat(bitrate_match[1])
        unit          == Lower(bitrate_match[2])
        bitrate_kbps  == IF unit = <<"k">> THEN bitrate_value
                         ELSE IF unit = <<"m">> THEN bitrate_value * 1024
                         ELSE bitrate_value \div 1000
    IN  IF bitrate_match = <<>> THEN <<>>
        ELSE <<R_BandwidthLimited \o IntToStr(bitrate_kbps) \o R_kbps>>

BitrateReasons(cmd) ==
    LET bitrate_match == FirstMatch([i \in 1..Len(cmd) |-> BitrateAt(cmd, i)])
        bitrate_value == StrToNat(bitrate_match[1])
        unit          == Lower(bitrate_match[2])
        bitrate_kbps  == IF unit = <<"k">> THEN bitrate_value
                         ELSE IF unit = <<"m">> THEN bitrate_value * 1000
                         ELSE bitrate_value \div 1000
    IN  IF bitrate_match = <<>> THEN <<>>
        ELSE <<R_BandwidthLimited \o IntToStr(bitrate_kbps) \o R_kbps>>

\* \w
IsWord(c) ==
    \/ IsDigit(c)
    \/ c = "_"
    \/ \E n \in 1..26 : c = UpperChars[n] \/ c = LowerChars[n]

\* where a greedy \w* begun at i ends
WordEnd(s, i) ==
    Min({j \in i..(Len(s) + 1) : j = Len(s) + 1 \/ ~IsWord(s[j])})

\* -hwaccel\s+(\w+) at i: the group, or <<>>
HwaccelAt(s, i) ==
    LET c == IF StartsAt(s, i, S_dashHwaccel)
             THEN Blanks(s, i + Len(S_dashHwaccel)) ELSE 0
    IN  IF c # 0 /\ c <= Len(s) /\ WordEnd(s, c) > c
        THEN Slice(s, c, WordEnd(s, c))
        ELSE <<>>

TechnicalDetails(cmd) ==
    LET hwaccel_match == FirstMatch([i \in 1..Len(cmd) |-> HwaccelAt(cmd, i)])
    IN  IF hwaccel_match # <<>>
        THEN <<R_Using \o Upper(hwaccel_match) \o R_hardwareAcceleration>>
        ELSE IF Contains(cmd, S_hwaccel) THEN <<R_UsingHardware>>
        ELSE <<>>

\* "; ".join(list)
RECURSIVE Join(_)
Join(list) ==
    IF Len(list) = 0 THEN <<>>
    ELSE IF Len(list) = 1 THEN list[1]
    ELSE list[1] \o S_semicolon \o Join(Tail(list))

\* d with d[key] = "; ".join(list) when the list is not empty
PutJoined(d, key, list) == IF list = <<>> THEN d ELSE Put(d, key, Join(list))

\* with the five primary reasons looked for in another order
AnalyzeFfmpegCommand_BitrateFirst(ffmpeg_cmd) ==
    LET primary_reasons   == BitrateReasons(ffmpeg_cmd) \o SubtitleReasons(ffmpeg_cmd)
                             \o ScaleReasons(ffmpeg_cmd) \o AudioReasons(ffmpeg_cmd)
                             \o VideoReasons(ffmpeg_cmd)
        technical_details == TechnicalDetails(ffmpeg_cmd)
    IN  PutJoined(PutJoined(PutJoined(<<>>, "primary_reasons", primary_reasons),
                            "technical_details", technical_details),
                  "combined", primary_reasons \o technical_details)

AnalyzeFfmpegCommand(ffmpeg_cmd) ==
    LET primary_reasons   == SubtitleReasons(ffmpeg_cmd) \o ScaleReasons(ffmpeg_cmd)
                             \o AudioReasons(ffmpeg_cmd) \o VideoReasons(ffmpeg_cmd)
                             \o BitrateReasons(ffmpeg_cmd)
        technical_details == TechnicalDetails(ffmpeg_cmd)
    IN  PutJoined(PutJoined(PutJoined(<<>>, "primary_reasons", primary_reasons),
                            "technical_details", technical_details),
                  "combined", primary_reasons \o technical_details)

-----------------------------------------------------------------------------
(* extract_transcoding_details *)

S_event_user_id == <<"e","v","e","n","t","_","u","s","e","r","_","i","d">>
S_event_user_id_int == <<"e","v","e","n","t","_","u","s","e","r","_","i","d","_","i","n","t">>
S_session_user_id == <<"s","e","s","s","i","o","n","_","u","s","e","r","_","i","d">>
S_clientname == <<"c","l","i","e","n","t","n","a","m","e">>
S_devicename == <<"d","e","v","i","c","e","n","a","m","e">>
S_itemname == <<"i","t","e","m","n","a","m","e">>
S_itemid == <<"i","t","e","m","i","d">>
S_itemtype == <<"i","t","e","m","t","y","p","e">>
S_UserIdPrefix == <<"U","s","e","r"," ","I","D",":"," ">>

\* name\s*[:=]\s*"([^"]+)" searched in message with re.IGNORECASE (name is
\* in lower case): the group of the leftmost match, or <<>>
SearchQuoted(message, name) ==
    LET t == Lower(message)
    IN  FirstMatch([i \in 1..Len(message) |->
            IF StartsAt(t, i, name)
            THEN QuotedValueAt(message, i + Len(name), {":", "="})
            ELSE <<>>])

\* \s*[:=]\s*(\d+) at i: the group, or <<>>
NumberValueAt(s, i) ==
    LET j == SkipWs(s, i)
        k == SkipWs(s, j + 1)
    IN  IF j <= Len(s) /\ s[j] \in {":", "="} /\ k <= Len(s) /\ DigitsEnd(s, k) > k
        THEN Slice(s, k, DigitsEnd(s, k))
        ELSE <<>>

\* event_user_id_int\s*[:=]\s*(\d+)
SearchUserIdInt(message) ==
    LET t == Lower(message)
    IN  FirstMatch([i \in 1..Len(message) |->
            IF StartsAt(t, i, S_event_user_id_int)
            THEN NumberValueAt(message, i + Len(S_event_user_id_int))
            ELSE <<>>])

\* (?:PlayMethod|Play\s*method|play_method)\s*[:=]\s*"([^"]+)"
SearchPlayMethodValue(message) ==
    LET t == Lower(message)
    IN  FirstMatch([i \in 1..Len(message) |->
            IF PlayMethodEnds(t, i) = {} THEN <<>>
            ELSE QuotedValueAt(message, Min(PlayMethodEnds(t, i)), {":", "="})])

\* the field names in the order of field_patterns
field_names ==
    <<"event_playing_id", "event_user_id", "event_user_id_int",
      "session_playing_id", "session_user_id", "play_method", "client",
      "device", "media", "item_id", "item_type">>

\* re.search(field_patterns[field_name], message, re.IGNORECASE): the group,
\* or <<>>. The optional prefix (?:e\.)? of the last five patterns changes
\* where a match starts and never what it captures.
FieldMatch(message, field_name) ==
    CASE field_name = "event_playing_id"   -> SearchQuoted(message, S_event_playing_id)
      [] field_name = "event_user_id"      -> SearchQuoted(message, S_event_user_id)
      [] field_name = "event_user_id_int"  -> SearchUserIdInt(message)
      [] field_name = "session_playing_id" -> SearchQuoted(message, S_session_playing_id)
      [] field_name = "session_user_id"    -> SearchQuoted(message, S_session_user_id)
      [] field_name = "play_method"        -> SearchPlayMethodValue(message)
      [] field_name = "client"             -> SearchQuoted(message, S_clientname)
      [] field_name = "device"             -> SearchQuoted(message, S_devicename)
      [] field_name = "media"              -> SearchQuoted(message, S_itemname)
      [] field_name = "item_id"            -> SearchQuoted(message, S_itemid)
      [] field_name = "item_type"          -> SearchQuoted(message, S_itemtype)

\* dict.update(other)
Update(d, other) == other @@ d

\* for field_name, pattern in field_patterns.items(), over the first n
\* fields: details[field_name] = match.group(1) where the pattern matches
RECURSIVE MatchFields(_, _)
MatchFields(message, n) ==
    IF n = 0 THEN <<>>
    ELSE TheOne({IF group = <<>> THEN MatchFields(message, n - 1)
                 ELSE Put(MatchFields(message, n - 1), field_names[n], group) :
                 group \in {FieldMatch(message, field_names[n])}})

\* details['user'] = f"User ID: {details['event_user_id']}"
WithLegacyUser(details) ==
    IF "event_user_id" \in DOMAIN details /\ "user" \notin DOMAIN details
    THEN Put(details, "user", S_UserIdPrefix \o details["event_user_id"])
    ELSE details

\* details['ffmpeg_command'] = message; details.update(analysis)
WithFfmpegCommand(details, entry) ==
    IF \/ Contains(Lower(entry.message), S_ffmpeg)
       \/ Contains(Lower(entry.category), S_ffmpeg)
    THEN Update(Put(details, "ffmpeg_command", entry.message),
                AnalyzeFfmpegCommand(entry.message))
    ELSE details

ExtractTranscodingDetails(entry) ==
    TheOne({WithFfmpegCommand(legacy, entry) :
            legacy \in {WithLegacyUser(fields) :
                        fields \in {MatchFields(entry.message, Len(field_names))}}})

-----------------------------------------------------------------------------
(* extract_transcoding_details_with_context *)

S_UserDataSync == <<"U","s","e","r"," ","D","a","t","a"," ","S","y","n","c">>
S_UserQuote == <<"U","s","e","r"," ","\"">>
S_quoteParen == <<"\""," ","(","\"">>
S_quoteClose == <<"\"",")">>

\* how far the same-timestamp search reaches
ContextReach == 20

\* how far the search for a data-sync line reaches
BroadReach == 1000

\* range(max(0, current_index - reach), min(n, current_index + reach)), as
\* indices from 0
SearchRange(n, current_index, reach) ==
    Max({0, current_index - reach})..(Min({n, current_index + reach}) - 1)

\* the details after the related entries at the indices ks were merged in,
\* lowest index first
RECURSIVE MergeRelated(_, _, _)
MergeRelated(details, all_entries, ks) ==
    IF ks = {} THEN details
    ELSE TheOne({MergeRelated(merged, all_entries, rest) :
                 merged \in {FirstWriterWins(details, related_details) :
                             related_details \in
                                 {ExtractTranscodingDetails(all_entries[Min(ks) + 1])}},
                 rest \in {ks \ {Min(ks)}}})

\* User "([^"]+)" \("([^"]+)"\) at i: <<username, sync_user_id>>, or <<>>
UsernameAt(s, i) ==
    LET a == i + Len(S_UserQuote)
        e == RunEnd(s, a, {"\""})
        b == e + Len(S_quoteParen)
        f == RunEnd(s, b, {"\""})
    IN  IF /\ StartsAt(s, i, S_UserQuote)
           /\ a <= Len(s) /\ e > a
           /\ StartsAt(s, e, S_quoteParen)
           /\ b <= Len(s) /\ f > b
           /\ StartsAt(s, f, S_quoteClose)
        THEN <<Slice(s, a, e), Slice(s, b, f)>>
        ELSE <<>>

\* re.search(r'User "([^"]+)" \("([^"]+)"\)', message)
UsernameMatch(message) ==
    FirstMatch([i \in 1..Len(message) |-> UsernameAt(message, i)])

\* the username the scan of the broad window finds for user_id, or <<>>
ScanUsername(all_entries, current_index, user_id) ==
    TheOne({IF found = {} THEN <<>>
            ELSE UsernameMatch(all_entries[Min(found) + 1].message)[1] :
            found \in {{i \in SearchRange(Len(all_entries), current_index, BroadReach) :
                          /\ Contains(all_entries[i + 1].message, S_UserDataSync)
                          /\ UsernameMatch(all_entries[i + 1].message) # <<>>
                          /\ UsernameMatch(all_entries[i + 1].message)[2] = user_id}}})

\* the indices of the entries of the narrow window that carry the timestamp
\* of the entry
RelatedIndices(entry, all_entries, current_index) ==
    IF entry.timestamp = <<>> THEN {}
    ELSE {i \in SearchRange(Len(all_entries), current_index, ContextReach) :
            all_entries[i + 1].timestamp = entry.timestamp}

\* details['line_range'] and details['time_range']: the related entries all
\* carry the timestamp of the entry, so unique_timestamps has one element
WithRanges(details, related, entry_timestamp) ==
    IF related = {} THEN details
    ELSE Put(Put(details, "line_range",
                 IntToStr(Min(related) + 1) \o S_dash \o IntToStr(Max(related) + 1)),
             "time_range", entry_timestamp)

\* details.get('event_user_id') or details.get('session_user_id')
RecoveredUserId(details) ==
    IF Get(details, "event_user_id") # <<>> THEN Get(details, "event_user_id")
    ELSE Get(details, "session_user_id")

\* details['username'] from the first data-sync entry of the broad window
\* with the recovered user id
WithUsername(details, all_entries, current_index) ==
    IF RecoveredUserId(details) = <<>> \/ Get(details, "username") # <<>>
    THEN details
    ELSE TheOne({IF username = <<>> THEN details
                 ELSE Put(details, "username", username) :
                 username \in {ScanUsername(all_entries, current_index,
                                            RecoveredUserId(details))}})

ExtractTranscodingDetailsWithContext(entry, all_entries, current_index) ==
    TheOne({WithUsername(ranged, all_entries, current_index) :
            ranged \in {WithRanges(MergeRelated(own, all_entries, related),
                                   related, entry.timestamp) :
                        own \in {ExtractTranscodingDetails(entry)},
                        related \in {RelatedIndices(entry, all_entries, current_index)}}})

-----------------------------------------------------------------------------
(* analyze_logs: the two passes over one file, up to the details of one
   transcoding event *)

L_eventUser1 == <<"[","2","0","2","5","-","0","9","-","2","5"," ","0","0",":","4","3",":","1","6","]"," ","[","I","N","F","]"," ","[","7","]"," ","S","t","a","r","t","P","l","a","y","b","a","c","k","T","i","m","e","r",":"," ","e","v","e","n","t","_","u","s","e","r","_","i","d","=","\"","u","1","\"">>
L_sessionUser2 == <<"[","2","0","2","5","-","0","9","-","2","5"," ","0","0",":","4","3",":","1","6","]"," ","[","I","N","F","]"," ","[","7","]"," ","S","t","a","r","t","P","l","a","y","b","a","c","k","T","i","m","e","r",":"," ","s","e","s","s","i","o","n","_","u","s","e","r","_","i","d","=","\"","u","2","\"">>
L_syncAnn == <<"[","2","0","2","5","-","0","9","-","2","5"," ","0","0",":","4","3",":","1","6","]"," ","[","I","N","F","]"," ","U","s","e","r"," ","D","a","t","a"," ","S","y","n","c",":"," ","U","s","e","r"," ","\"","A","n","n","\""," ","(","\"","u","1","\"",")"," ","p","o","s","t","e","d"," ","2"," ","u","p","d","a","t","e","s">>
L_syncBob == <<"[","2","0","2","5","-","0","9","-","2","5"," ","0","0",":","4","3",":","1","7","]"," ","[","I","N","F","]"," ","U","s","e","r"," ","D","a","t","a"," ","S","y","n","c",":"," ","U","s","e","r"," ","\"","B","o","b","\""," ","(","\"","u","1","\"",")"," ","p","o","s","t","e","d"," ","2"," ","u","p","d","a","t","e","s">>
L_syncCat == <<"[","2","0","2","5","-","0","9","-","2","5"," ","0","0",":","4","3",":","1","7","]"," ","[","I","N","F","]"," ","[","7","]"," ","U","s","e","r"," ","D","a","t","a"," ","S","y","n","c",":"," ","U","s","e","r"," ","\"","C","a","t","\""," ","(","\"","u","2","\"",")"," ","p","o","s","t","e","d"," ","1"," ","u","p","d","a","t","e","s">>
L_filler == <<"x">>
L_blank == <<" ">>

\* the lines the short sample files are made of
LineKinds ==
    {L_eventUser1, L_sessionUser2, L_syncAnn, L_syncBob, L_syncCat, L_filler,
     L_blank}

\* the most lines in a short sample file
MaxLines == 3

\* a file in which the event and the data-sync line are d lines apart, with
\* filler lines between them
FarApart(event, sync, d, sync_first) ==
    [n \in 1..(d + 1) |->
        IF n = 1 THEN (IF sync_first THEN sync ELSE event)
        ELSE IF n = d + 1 THEN (IF sync_first THEN event ELSE sync)
        ELSE L_filler]

\* the distances around the reach of the broad search
FarDistances == {BroadReach - 1, BroadReach, BroadReach + 1}

\* the distances around the reach of the search for related lines
NearDistances == {ContextReach - 1, ContextReach, ContextReach + 1}

\* the first pass over the lines lo..hi: the entries of the lines that gave
\* one, each with its line number
RECURSIVE CollectEntries(_, _, _)
CollectEntries(lines, lo, hi) ==
    IF lo > hi THEN <<>>
    ELSE IF lo = hi
    THEN TheOne({IF DOMAIN parsed.returned = {} THEN <<>>
                 ELSE <<[entry |-> parsed.returned, line_num |-> n]>> :
                 parsed \in {ParseLogLine(lines[lo])}, n \in {lo}})
    ELSE TheOne({CollectEntries(lines, a, mid) \o CollectEntries(lines, mid + 1, b) :
                 a \in {lo}, mid \in {(lo + hi) \div 2}, b \in {hi}})

\* [e[0] for e in all_entries]
EntriesOf(all_entries) == [n \in 1..Len(all_entries) |-> all_entries[n].entry]

InitContext ==
    /\ pc = "read_lines"
    /\ \/ \E n \in 0..MaxLines : arg \in [lines : [1..n -> LineKinds]]
       \/ \E d \in FarDistances, sync_first \in BOOLEAN,
             pair \in {<<L_eventUser1, L_syncAnn>>, <<L_sessionUser2, L_syncCat>>} :
             arg = [lines |-> FarApart(pair[1], pair[2], d, sync_first)]
       \/ \E d \in NearDistances, other_first \in BOOLEAN :
             arg = [lines |-> FarApart(L_eventUser1, L_sessionUser2, d,
                                       other_first)]
    /\ ret = <<>>
    /\ CorrelateIdle
    /\ ReportIdle

\* for line_num, line in enumerate(f, 1): an exception of parse_log_line
\* ends the work on the file
ReadLines ==
    /\ pc = "read_lines"
    /\ IF \E n \in 1..Len(arg.lines) : HasRaised(ParseLogLine(arg.lines[n]))
       THEN pc' = "abandoned" /\ arg' = arg
       ELSE /\ pc' = "entries"
            /\ arg' = [all_entries |-> CollectEntries(arg.lines, 1, Len(arg.lines))]
    /\ UNCHANGED <<corrVars, reportVars, ret>>

\* the branch of the second pass for a transcoding event at index i, with
\* the transcoding category selected
ExtractWithContext ==
    /\ pc = "entries"
    /\ \E i \in 0..(Len(arg.all_entries) - 1) :
          LET entry == arg.all_entries[i + 1].entry
          IN  /\ ~IsErrorLine(entry)
              /\ IsTranscodingEvent(entry)
              /\ arg' = [all_entries |-> arg.all_entries, current_index |-> i]
              /\ ret' = Returned(ExtractTranscodingDetailsWithContext(
                                    entry, EntriesOf(arg.all_entries), i))
    /\ pc' = "extracted"
    /\ UNCHANGED <<corrVars, reportVars>>

NextContext == ReadLines \/ ExtractWithContext

SpecContext == InitContext /\ [][NextContext]_vars

\* the <<name, id>> of a data-sync line of the shape
\* [ts] [lvl] User Data Sync: User "<name>" ("<id>") ..., or <<>>
DataSyncLine(raw_line) ==
    LET h == TwoBrackets(raw_line)
    IN  IF h.end # 0 /\ StartsAt(raw_line, h.end, S_UserDataSync \o <<":", " ">>)
        THEN UsernameAt(raw_line, h.end + Len(S_UserDataSync) + 2)
        ELSE <<>>

\* the indices, at most BroadReach from current_index, of the entries parsed
\* from a data-sync line for user_id
SyncEntriesNear(all_entries, current_index, user_id) ==
    {k \in 0..(Len(all_entries) - 1) :
        /\ k - current_index <= BroadReach
        /\ current_index - k <= BroadReach
        /\ DataSyncLine(all_entries[k + 1].entry.raw_line) # <<>>
        /\ DataSyncLine(all_entries[k + 1].entry.raw_line)[2] = user_id}

\* C10: when the details of a transcoding event recover the user id u and an
\* entry at most 1000 entries before or after the event was parsed from a
\* data-sync line [ts] [lvl] User Data Sync: User "<name>" ("u") ..., the
\* details returned by extract_transcoding_details_with_context carry, as
\* username, the name of the first such line.
C10_UsernameRecovered ==
    pc = "extracted" =>
        LET details == ret.returned
            user_id == RecoveredUserId(details)
            near    == SyncEntriesNear(arg.all_entries, arg.current_index, user_id)
        IN  (user_id # <<>> /\ near # {}) =>
                Get(details, "username")
                    = DataSyncLine(arg.all_entries[Min(near) + 1].entry.raw_line)[1]

-----------------------------------------------------------------------------
(* ErrorPattern and categorize_error *)

\* A pattern is the sequence of its nodes: <<"lit", text>> for literal text,
\* <<".*">>, <<"\\s*">>, <<"\\s+">>, <<"\\d+">>, and <<"(?:|)", alternatives>>
\* for a group (or a whole pattern) of alternatives, each a sequence of nodes.

NETWORKING ==
    <<
     \* connection.*(?:timeout|refused|reset|failed)
     <<<<"lit", <<"c","o","n","n","e","c","t","i","o","n">>>>, <<".*">>,
       <<"(?:|)", <<<<<<"lit", <<"t","i","m","e","o","u","t">>>>>>,
       <<<<"lit", <<"r","e","f","u","s","e","d">>>>>>,
       <<<<"lit", <<"r","e","s","e","t">>>>>>,
       <<<<"lit", <<"f","a","i","l","e","d">>>>>>>>>>>>,
     \* dns.*(?:resolution|lookup).*failed
     <<<<"lit", <<"d","n","s">>>>, <<".*">>,
       <<"(?:|)", <<<<<<"lit", <<"r","e","s","o","l","u","t","i","o","n">>>>>>,
       <<<<"lit", <<"l","o","o","k","u","p">>>>>>>>>>, <<".*">>,
       <<"lit", <<"f","a","i","l","e","d">>>>>>,
     \* network.*(?:unreachable|error|failure)
     <<<<"lit", <<"n","e","t","w","o","r","k">>>>, <<".*">>,
       <<"(?:|)", <<<<<<"lit", <<"u","n","r","e","a","c","h","a","b","l","e">>>>>>,
       <<<<"lit", <<"e","r","r","o","r">>>>>>,
       <<<<"lit", <<"f","a","i","l","u","r","e">>>>>>>>>>>>,
     \* socket.*(?:error|exception|closed)
     <<<<"lit", <<"s","o","c","k","e","t">>>>, <<".*">>,
       <<"(?:|)", <<<<<<"lit", <<"e","r","r","o","r">>>>>>,
       <<<<"lit", <<"e","x","c","e","p","t","i","o","n">>>>>>,
       <<<<"lit", <<"c","l","o","s","e","d">>>>>>>>>>>>,
     \* http.*(?:request|response).*(?:failed|error|timeout)
     <<<<"lit", <<"h","t","t","p">>>>, <<".*">>,
       <<"(?:|)", <<<<<<"lit", <<"r","e","q","u","e","s","t">>>>>>,
       <<<<"lit", <<"r","e","s","p","o","n","s","e">>>>>>>>>>, <<".*">>,
       <<"(?:|)", <<<<<<"lit", <<"f","a","i","l","e","d">>>>>>,
       <<<<"lit", <<"e","r","r","o","r">>>>>>,
       <<<<"lit", <<"t","i","m","e","o","u","t">>>>>>>>>>>>,
     \* ssl.*(?:handshake|certificate).*(?:failed|error)
     <<<<"lit", <<"s","s","l">>>>, <<".*">>,
       <<"(?:|)", <<<<<<"lit", <<"h","a","n","d","s","h","a","k","e">>>>>>,
       <<<<"lit", <<"c","e","r","t","i","f","i","c","a","t","e">>>>>>>>>>,
       <<".*">>, <<"(?:|)", <<<<<<"lit", <<"f","a","i","l","e","d">>>>>>,
       <<<<"lit", <<"e","r","r","o","r">>>>>>>>>>>>
    >>

TRANSCODING ==
    <<
     \* transcode.*(?:failed|error|exception)
     <<<<"lit", <<"t","r","a","n","s","c","o","d","e">>>>, <<".*">>,
       <<"(?:|)", <<<<<<"lit", <<"f","a","i","l","e","d">>>>>>,
       <<<<"lit", <<"e","r","r","o","r">>>>>>,
       <<<<"lit", <<"e","x","c","e","p","t","i","o","n">>>>>>>>>>>>,
     \* ffmpeg.*(?:error|failed|exception|exited.*code\s*\d+)
     <<<<"lit", <<"f","f","m","p","e","g">>>>, <<".*">>,
       <<"(?:|)", <<<<<<"lit", <<"e","r","r","o","r">>>>>>,
       <<<<"lit", <<"f","a","i","l","e","d">>>>>>,
       <<<<"lit", <<"e","x","c","e","p","t","i","o","n">>>>>>,
       <<<<"lit", <<"e","x","i","t","e","d">>>>, <<".*">>,
       <<"lit", <<"c","o","d","e">>>>, <<"\\s*">>, <<"\\d+">>>>>>>>>>,
     \* hardware.*acceleration.*(?:failed|unavailable|error)
     <<<<"lit", <<"h","a","r","d","w","a","r","e">>>>, <<".*">>,
       <<"lit", <<"a","c","c","e","l","e","r","a","t","i","o","n">>>>,
       <<".*">>, <<"(?:|)", <<<<<<"lit", <<"f","a","i","l","e","d">>>>>>,
       <<<<"lit", <<"u","n","a","v","a","i","l","a","b","l","e">>>>>>,
       <<<<"lit", <<"e","r","r","o","r">>>>>>>>>>>>,
     \* codec.*(?:not.*supported|failed|error)
     <<<<"lit", <<"c","o","d","e","c">>>>, <<".*">>,
       <<"(?:|)", <<<<<<"lit", <<"n","o","t">>>>, <<".*">>,
       <<"lit", <<"s","u","p","p","o","r","t","e","d">>>>>>,
       <<<<"lit", <<"f","a","i","l","e","d">>>>>>,
       <<<<"lit", <<"e","r","r","o","r">>>>>>>>>>>>,
     \* video.*(?:encoding|decoding).*(?:failed|error)
     <<<<"lit", <<"v","i","d","e","o">>>>, <<".*">>,
       <<"(?:|)", <<<<<<"lit", <<"e","n","c","o","d","i","n","g">>>>>>,
       <<<<"lit", <<"d","e","c","o","d","i","n","g">>>>>>>>>>, <<".*">>,
       <<"(?:|)", <<<<<<"lit", <<"f","a","i","l","e","d">>>>>>,
       <<<<"lit", <<"e","r","r","o","r">>>>>>>>>>>>,
     \* audio.*(?:encoding|decoding).*(?:failed|error)
     <<<<"lit", <<"a","u","d","i","o">>>>, <<".*">>,
       <<"(?:|)", <<<<<<"lit", <<"e","n","c","o","d","i","n","g">>>>>>,
       <<<<"lit", <<"d","e","c","o","d","i","n","g">>>>>>>>>>, <<".*">>,
       <<"(?:|)", <<<<<<"lit", <<"f","a","i","l","e","d">>>>>>,
       <<<<"lit", <<"e","r","r","o","r">>>>>>>>>>>>,
     \* subtitle.*(?:encoding|extraction).*(?:failed|error)
     <<<<"lit", <<"s","u","b","t","i","t","l","e">>>>, <<".*">>,
       <<"(?:|)", <<<<<<"lit", <<"e","n","c","o","d","i","n","g">>>>>>,
       <<<<"lit", <<"e","x","t","r","a","c","t","i","o","n">>>>>>>>>>,
       <<".*">>, <<"(?:|)", <<<<<<"lit", <<"f","a","i","l","e","d">>>>>>,
       <<<<"lit", <<"e","r","r","o","r">>>>>>>>>>>>,
     \* play_method.*=.*transcode
     <<<<"lit", <<"p","l","a","y","_","m","e","t","h","o","d">>>>, <<".*">>,
       <<"lit", <<"=">>>>, <<".*">>,
       <<"lit", <<"t","r","a","n","s","c","o","d","e">>>>>>,
     \* ffmpeg.*-i\s+file:
     <<<<"lit", <<"f","f","m","p","e","g">>>>, <<".*">>,
       <<"lit", <<"-","i">>>>, <<"\\s+">>,
       <<"lit", <<"f","i","l","e",":">>>>>>,
     \* started.*transcod
     <<<<"lit", <<"s","t","a","r","t","e","d">>>>, <<".*">>,
       <<"lit", <<"t","r","a","n","s","c","o","d">>>>>>,
     \* transcod.*start
     <<<<"lit", <<"t","r","a","n","s","c","o","d">>>>, <<".*">>,
       <<"lit", <<"s","t","a","r","t">>>>>>,
     \* h264_nvenc|libx264|hevc_nvenc|libx265
     <<<<"(?:|)", <<<<<<"lit", <<"h","2","6","4","_","n","v","e","n","c">>>>>>,
       <<<<"lit", <<"l","i","b","x","2","6","4">>>>>>,
       <<<<"lit", <<"h","e","v","c","_","n","v","e","n","c">>>>>>,
       <<<<"lit", <<"l","i","b","x","2","6","5">>>>>>>>>>>>,
     \* libfdk_aac|aac|ac3|eac3
     <<<<"(?:|)", <<<<<<"lit", <<"l","i","b","f","d","k","_","a","a","c">>>>>>,
       <<<<"lit", <<"a","a","c">>>>>>, <<<<"lit", <<"a","c","3">>>>>>,
       <<<<"lit", <<"e","a","c","3">>>>>>>>>>>>,
     \* scale_cuda|scale=|vf.*scale
     <<<<"(?:|)", <<<<<<"lit", <<"s","c","a","l","e","_","c","u","d","a">>>>>>,
       <<<<"lit", <<"s","c","a","l","e","=">>>>>>, <<<<"lit", <<"v","f">>>>,
       <<".*">>, <<"lit", <<"s","c","a","l","e">>>>>>>>>>>>
    >>

DIRECTSTREAM ==
    <<
     \* play_method.*=.*directstream
     <<<<"lit", <<"p","l","a","y","_","m","e","t","h","o","d">>>>, <<".*">>,
       <<"lit", <<"=">>>>, <<".*">>,
       <<"lit", <<"d","i","r","e","c","t","s","t","r","e","a","m">>>>>>,
     \* directstream.*start
     <<<<"lit", <<"d","i","r","e","c","t","s","t","r","e","a","m">>>>,
       <<".*">>, <<"lit", <<"s","t","a","r","t">>>>>>,
     \* started.*directstream
     <<<<"lit", <<"s","t","a","r","t","e","d">>>>, <<".*">>,
       <<"lit", <<"d","i","r","e","c","t","s","t","r","e","a","m">>>>>>,
     \* remux.*start
     <<<<"lit", <<"r","e","m","u","x">>>>, <<".*">>,
       <<"lit", <<"s","t","a","r","t">>>>>>,
     \* started.*remux
     <<<<"lit", <<"s","t","a","r","t","e","d">>>>, <<".*">>,
       <<"lit", <<"r","e","m","u","x">>>>>>
    >>

PLAYBACK ==
    <<
     \* playback.*(?:failed|error|stopped)
     <<<<"lit", <<"p","l","a","y","b","a","c","k">>>>, <<".*">>,
       <<"(?:|)", <<<<<<"lit", <<"f","a","i","l","e","d">>>>>>,
       <<<<"lit", <<"e","r","r","o","r">>>>>>,
       <<<<"lit", <<"s","t","o","p","p","e","d">>>>>>>>>>>>,
     \* stream.*(?:failed|error|unavailable|corrupted)
     <<<<"lit", <<"s","t","r","e","a","m">>>>, <<".*">>,
       <<"(?:|)", <<<<<<"lit", <<"f","a","i","l","e","d">>>>>>,
       <<<<"lit", <<"e","r","r","o","r">>>>>>,
       <<<<"lit", <<"u","n","a","v","a","i","l","a","b","l","e">>>>>>,
       <<<<"lit", <<"c","o","r","r","u","p","t","e","d">>>>>>>>>>>>,
     \* seeking.*(?:failed|error)
     <<<<"lit", <<"s","e","e","k","i","n","g">>>>, <<".*">>,
       <<"(?:|)", <<<<<<"lit", <<"f","a","i","l","e","d">>>>>>,
       <<<<"lit", <<"e","r","r","o","r">>>>>>>>>>>>,
     \* media.*(?:format|container).*(?:unsupported|error)
     <<<<"lit", <<"m","e","d","i","a">>>>, <<".*">>,
       <<"(?:|)", <<<<<<"lit", <<"f","o","r","m","a","t">>>>>>,
       <<<<"lit", <<"c","o","n","t","a","i","n","e","r">>>>>>>>>>, <<".*">>,
       <<"(?:|)", <<<<<<"lit", <<"u","n","s","u","p","p","o","r","t","e","d">>>>>>,
       <<<<"lit", <<"e","r","r","o","r">>>>>>>>>>>>,
     \* buffer.*(?:underrun|overflow|error)
     <<<<"lit", <<"b","u","f","f","e","r">>>>, <<".*">>,
       <<"(?:|)", <<<<<<"lit", <<"u","n","d","e","r","r","u","n">>>>>>,
       <<<<"lit", <<"o","v","e","r","f","l","o","w">>>>>>,
       <<<<"lit", <<"e","r","r","o","r">>>>>>>>>>>>,
     \* session.*(?:failed|terminated|error)
     <<<<"lit", <<"s","e","s","s","i","o","n">>>>, <<".*">>,
       <<"(?:|)", <<<<<<"lit", <<"f","a","i","l","e","d">>>>>>,
       <<<<"lit", <<"t","e","r","m","i","n","a","t","e","d">>>>>>,
       <<<<"lit", <<"e","r","r","o","r">>>>>>>>>>>>
    >>

AUTHENTICATION ==
    <<
     \* authentication.*(?:failed|error|invalid)
     <<<<"lit", <<"a","u","t","h","e","n","t","i","c","a","t","i","o","n">>>>,
       <<".*">>, <<"(?:|)", <<<<<<"lit", <<"f","a","i","l","e","d">>>>>>,
       <<<<"lit", <<"e","r","r","o","r">>>>>>,
       <<<<"lit", <<"i","n","v","a","l","i","d">>>>>>>>>>>>,
     \* login.*(?:failed|invalid|error)
     <<<<"lit", <<"l","o","g","i","n">>>>, <<".*">>,
       <<"(?:|)", <<<<<<"lit", <<"f","a","i","l","e","d">>>>>>,
       <<<<"lit", <<"i","n","v","a","l","i","d">>>>>>,
       <<<<"lit", <<"e","r","r","o","r">>>>>>>>>>>>,
     \* token.*(?:invalid|expired|error)
     <<<<"lit", <<"t","o","k","e","n">>>>, <<".*">>,
       <<"(?:|)", <<<<<<"lit", <<"i","n","v","a","l","i","d">>>>>>,
       <<<<"lit", <<"e","x","p","i","r","e","d">>>>>>,
       <<<<"lit", <<"e","r","r","o","r">>>>>>>>>>>>,
     \* authorization.*(?:failed|denied|error)
     <<<<"lit", <<"a","u","t","h","o","r","i","z","a","t","i","o","n">>>>,
       <<".*">>, <<"(?:|)", <<<<<<"lit", <<"f","a","i","l","e","d">>>>>>,
       <<<<"lit", <<"d","e","n","i","e","d">>>>>>,
       <<<<"lit", <<"e","r","r","o","r">>>>>>>>>>>>,
     \* user.*(?:not.*found|invalid|locked)
     <<<<"lit", <<"u","s","e","r">>>>, <<".*">>,
       <<"(?:|)", <<<<<<"lit", <<"n","o","t">>>>, <<".*">>,
       <<"lit", <<"f","o","u","n","d">>>>>>,
       <<<<"lit", <<"i","n","v","a","l","i","d">>>>>>,
       <<<<"lit", <<"l","o","c","k","e","d">>>>>>>>>>>>,
     \* password.*(?:incorrect|invalid|failed)
     <<<<"lit", <<"p","a","s","s","w","o","r","d">>>>, <<".*">>,
       <<"(?:|)", <<<<<<"lit", <<"i","n","c","o","r","r","e","c","t">>>>>>,
       <<<<"lit", <<"i","n","v","a","l","i","d">>>>>>,
       <<<<"lit", <<"f","a","i","l","e","d">>>>>>>>>>>>
    >>

DATABASE ==
    <<
     \* database.*(?:error|exception|corruption|locked)
     <<<<"lit", <<"d","a","t","a","b","a","s","e">>>>, <<".*">>,
       <<"(?:|)", <<<<<<"lit", <<"e","r","r","o","r">>>>>>,
       <<<<"lit", <<"e","x","c","e","p","t","i","o","n">>>>>>,
       <<<<"lit", <<"c","o","r","r","u","p","t","i","o","n">>>>>>,
       <<<<"lit", <<"l","o","c","k","e","d">>>>>>>>>>>>,
     \* sqlite.*(?:error|exception|busy|locked)
     <<<<"lit", <<"s","q","l","i","t","e">>>>, <<".*">>,
       <<"(?:|)", <<<<<<"lit", <<"e","r","r","o","r">>>>>>,
       <<<<"lit", <<"e","x","c","e","p","t","i","o","n">>>>>>,
       <<<<"lit", <<"b","u","s","y">>>>>>,
       <<<<"lit", <<"l","o","c","k","e","d">>>>>>>>>>>>,
     \* sql.*(?:syntax|error|exception)
     <<<<"lit", <<"s","q","l">>>>, <<".*">>,
       <<"(?:|)", <<<<<<"lit", <<"s","y","n","t","a","x">>>>>>,
       <<<<"lit", <<"e","r","r","o","r">>>>>>,
       <<<<"lit", <<"e","x","c","e","p","t","i","o","n">>>>>>>>>>>>,
     \* migration.*(?:failed|error)
     <<<<"lit", <<"m","i","g","r","a","t","i","o","n">>>>, <<".*">>,
       <<"(?:|)", <<<<<<"lit", <<"f","a","i","l","e","d">>>>>>,
       <<<<"lit", <<"e","r","r","o","r">>>>>>>>>>>>,
     \* schema.*(?:error|invalid|corruption)
     <<<<"lit", <<"s","c","h","e","m","a">>>>, <<".*">>,
       <<"(?:|)", <<<<<<"lit", <<"e","r","r","o","r">>>>>>,
       <<<<"lit", <<"i","n","v","a","l","i","d">>>>>>,
       <<<<"lit", <<"c","o","r","r","u","p","t","i","o","n">>>>>>>>>>>>
    >>

PLUGIN ==
    <<
     \* plugin.*(?:failed|error|exception|load)
     <<<<"lit", <<"p","l","u","g","i","n">>>>, <<".*">>,
       <<"(?:|)", <<<<<<"lit", <<"f","a","i","l","e","d">>>>>>,
       <<<<"lit", <<"e","r","r","o","r">>>>>>,
       <<<<"lit", <<"e","x","c","e","p","t","i","o","n">>>>>>,
       <<<<"lit", <<"l","o","a","d">>>>>>>>>>>>,
     \* assembly.*(?:load|loading).*(?:failed|error)
     <<<<"lit", <<"a","s","s","e","m","b","l","y">>>>, <<".*">>,
       <<"(?:|)", <<<<<<"lit", <<"l","o","a","d">>>>>>,
       <<<<"lit", <<"l","o","a","d","i","n","g">>>>>>>>>>, <<".*">>,
       <<"(?:|)", <<<<<<"lit", <<"f","a","i","l","e","d">>>>>>,
       <<<<"lit", <<"e","r","r","o","r">>>>>>>>>>>>,
     \* dependency.*(?:missing|failed|error)
     <<<<"lit", <<"d","e","p","e","n","d","e","n","c","y">>>>, <<".*">>,
       <<"(?:|)", <<<<<<"lit", <<"m","i","s","s","i","n","g">>>>>>,
       <<<<"lit", <<"f","a","i","l","e","d">>>>>>,
       <<<<"lit", <<"e","r","r","o","r">>>>>>>>>>>>,
     \* configuration.*(?:invalid|error|missing)
     <<<<"lit", <<"c","o","n","f","i","g","u","r","a","t","i","o","n">>>>,
       <<".*">>, <<"(?:|)", <<<<<<"lit", <<"i","n","v","a","l","i","d">>>>>>,
       <<<<"lit", <<"e","r","r","o","r">>>>>>,
       <<<<"lit", <<"m","i","s","s","i","n","g">>>>>>>>>>>>
    >>

GENERAL ==
    <<
     \* unhandled.*exception
     <<<<"lit", <<"u","n","h","a","n","d","l","e","d">>>>, <<".*">>,
       <<"lit", <<"e","x","c","e","p","t","i","o","n">>>>>>,
     \* critical.*error
     <<<<"lit", <<"c","r","i","t","i","c","a","l">>>>, <<".*">>,
       <<"lit", <<"e","r","r","o","r">>>>>>,
     \* fatal.*error
     <<<<"lit", <<"f","a","t","a","l">>>>, <<".*">>,
       <<"lit", <<"e","r","r","o","r">>>>>>,
     \* system.*error
     <<<<"lit", <<"s","y","s","t","e","m">>>>, <<".*">>,
       <<"lit", <<"e","r","r","o","r">>>>>>,
     \* out.*of.*memory
     <<<<"lit", <<"o","u","t">>>>, <<".*">>, <<"lit", <<"o","f">>>>, <<".*">>,
       <<"lit", <<"m","e","m","o","r","y">>>>>>,
     \* disk.*(?:full|space|error)
     <<<<"lit", <<"d","i","s","k">>>>, <<".*">>,
       <<"(?:|)", <<<<<<"lit", <<"f","u","l","l">>>>>>,
       <<<<"lit", <<"s","p","a","c","e">>>>>>,
       <<<<"lit", <<"e","r","r","o","r">>>>>>>>>>>>
    >>
\* self.error_patterns
error_patterns ==
    [networking |-> NETWORKING, transcoding |-> TRANSCODING,
     directstream |-> DIRECTSTREAM, playback |-> PLAYBACK,
     authentication |-> AUTHENTICATION, database |-> DATABASE,
     plugin |-> PLUGIN, general |-> GENERAL]

RECURSIVE SeqEnds(_, _, _)
RECURSIVE NodeEnds(_, _, _)

\* the positions where a match of node can end when it begins at one of the
\* positions of from ("." matches no line break)
NodeEnds(t, from, node) ==
    IF node[1] = "lit"
    THEN {p + Len(node[2]) : p \in {q \in from : StartsAt(t, q, node[2])}}
    ELSE IF node[1] = "(?:|)"
    THEN UNION {SeqEnds(t, from, node[2][a]) : a \in 1..Len(node[2])}
    ELSE {q \in 1..(Len(t) + 1) :
            \E p \in from :
                /\ IF node[1] \in {"\\s+", "\\d+"} THEN p < q ELSE p <= q
                /\ \A k \in p..(q - 1) :
                      IF node[1] = ".*" THEN t[k] # "\n"
                      ELSE IF node[1] = "\\d+" THEN IsDigit(t[k])
                      ELSE IsSpace(t[k])}

\* the same for a sequence of nodes
SeqEnds(t, from, seq) ==
    IF seq = <<>> THEN from
    ELSE TheOne({SeqEnds(t, f, Tail(seq)) :
                 f \in {NodeEnds(t, from, Head(seq))}})

\* re.search(pattern, t, re.IGNORECASE) on lower-case t: the patterns are
\* lower case
Search(pattern, t) == SeqEnds(t, 1..(Len(t) + 1), pattern) # {}

\* f"{entry.message} {entry.exception} {entry.category}".lower()
ErrorText(entry) ==
    Lower(entry.message \o <<" ">> \o entry.exception \o <<" ">>
          \o entry.category)

\* the selected categories one of whose patterns is found, in the order of
\* selected_categories
RECURSIVE MatchedCategories(_, _, _)
MatchedCategories(full_text, selected_categories, n) ==
    IF n > Len(selected_categories) THEN <<>>
    ELSE TheOne({(IF /\ category \in DOMAIN error_patterns
                     /\ \E patterns \in {error_patterns[category]} :
                           \E k \in 1..Len(patterns) :
                               Search(patterns[k], full_text)
                  THEN <<category>> ELSE <<>>)
                 \o MatchedCategories(full_text, selected_categories, n + 1) :
                 category \in {selected_categories[n]}})

CategorizeError(entry, selected_categories) ==
    TheOne({IF matched = <<>>
               /\ \E n \in 1..Len(selected_categories) :
                     selected_categories[n] = "general"
            THEN <<"general">> ELSE matched :
            matched \in {TheOne({MatchedCategories(t, selected_categories, 1) :
                                 t \in {ErrorText(entry)}})}})

-----------------------------------------------------------------------------
(* analyze_logs: the loop over the log files *)

L_timerP1 == <<"[","2","0","2","5","-","0","9","-","2","5"," ","0","0",":","4","3",":","1","6","]"," ","[","I","N","F","]"," ","[","7","]"," ","S","t","a","r","t","P","l","a","y","b","a","c","k","T","i","m","e","r",":"," ","e","v","e","n","t","_","p","l","a","y","i","n","g","_","i","d","=","\"","p","1","\"">>
L_ffmpegMovie == <<"[","2","0","2","5","-","0","9","-","2","5"," ","0","0",":","4","3",":","2","0","]"," ","[","I","N","F","]"," ","[","7","]"," ","f","f","m","p","e","g"," ","-","i"," ","f","i","l","e",":","\"","/","m","e","d","i","a","/","m","o","v","i","e",".","m","k","v","\""," ","-","c",":","v"," ","l","i","b","x","2","6","4">>
L_errDatabase == <<"[","2","0","2","5","-","0","9","-","2","5"," ","0","0",":","4","3",":","3","0","]"," ","[","E","R","R","]"," ","[","7","]"," ","D","a","t","a","b","a","s","e"," ","e","r","r","o","r",":"," ","c","o","n","n","e","c","t","i","o","n"," ","f","a","i","l","e","d">>
L_errFfmpeg == <<"[","2","0","2","5","-","0","9","-","2","5"," ","0","0",":","4","3",":","4","0","]"," ","[","E","R","R","]"," ","[","7","]"," ","f","f","m","p","e","g"," ","e","x","i","t","e","d"," ","w","i","t","h"," ","c","o","d","e"," ","1">>
L_errOther == <<"[","2","0","2","5","-","0","9","-","2","5"," ","0","0",":","4","4",":","0","0","]"," ","[","E","R","R","]"," ","[","7","]"," ","S","o","m","e","t","h","i","n","g"," ","b","r","o","k","e">>
L_remux == <<"[","2","0","2","5","-","0","9","-","2","5"," ","0","0",":","4","4",":","1","0","]"," ","[","I","N","F","]"," ","[","7","]"," ","S","t","a","r","t","e","d"," ","r","e","m","u","x"," ","o","f"," ","m","o","v","i","e",".","m","k","v">>

\* the lines the sample log files are made of
FileLineKinds ==
    {L_timerP1, L_ffmpegMovie, L_errDatabase, L_errFfmpeg, L_errOther, L_remux}

\* the most lines in a sample log file
MaxFileLines == 2

\* the sample values of self.log_paths: two files that exist, the second
\* one made of three of the lines
LogPaths ==
    {<<[path |-> "a.log", lines |-> a], [path |-> "b.log", lines |-> b]>> :
        a \in UNION {[1..n -> FileLineKinds] : n \in 0..MaxFileLines},
        b \in UNION {[1..n -> {L_timerP1, L_ffmpegMovie, L_errDatabase}] :
                        n \in 0..MaxFileLines}}

\* the sample values of the categories argument
CategoryChoices ==
    {<<"transcoding">>,
     <<"networking", "database", "transcoding", "directstream", "general">>}

\* 'transcoding' in categories
Selected(selected_categories, category) ==
    \E n \in 1..Len(selected_categories) : selected_categories[n] = category

\* a variant that looks for a transcoding event before it looks for an error
EntryRecords_EventsFirst(all_entries, log_path, selected_categories, i) ==
    LET entry == all_entries[i + 1].entry
        timestamp == ParseTimestamp(entry)
        info == [message |-> entry.message,
                 file |-> log_path,
                 line_number |-> all_entries[i + 1].line_num,
                 timestamp |-> timestamp.returned]
    IN  IF Selected(selected_categories, "transcoding")
           /\ IsTranscodingEvent(entry)
        THEN TheOne({IF HasRaised(timestamp) THEN timestamp
                     ELSE Returned(<<[category |-> "transcoding",
                                      error_info |->
                                         info @@ [event_type |-> "transcoding_event",
                                                  transcoding_details |-> details]]>>) :
                     details \in {ExtractTranscodingDetailsWithContext(
                                     entry, EntriesOf(all_entries), i)}})
        ELSE IF IsErrorLine(entry)
        THEN TheOne({IF error_categories = <<>> THEN Returned(<<>>)
                     ELSE IF HasRaised(timestamp) THEN timestamp
                     ELSE Returned([k \in 1..Len(error_categories) |->
                              [category |-> error_categories[k],
                               error_info |-> info @@ [event_type |-> "error"]]]) :
                     error_categories \in
                         {CategorizeError(entry, selected_categories)}})
        ELSE IF Selected(selected_categories, "directstream")
                /\ IsDirectstreamEvent(entry)
        THEN TheOne({IF HasRaised(timestamp) THEN timestamp
                     ELSE Returned(<<[category |-> "directstream",
                                      error_info |->
                                         info @@ [event_type |-> "directstream_event",
                                                  directstream_details |-> details]]>>) :
                     details \in {ExtractTranscodingDetails(entry)}})
        ELSE Returned(<<>>)

\* the error_info dicts of the entry at index i (from 0) of all_entries, each
\* with the category whose list it is appended to; parse_timestamp is called
\* when the first dict is built, and what it raises leaves the loop
EntryRecords(all_entries, log_path, selected_categories, i) ==
    LET entry == all_entries[i + 1].entry
        timestamp == ParseTimestamp(entry)
        info == [message |-> entry.message,
                 file |-> log_path,
                 line_number |-> all_entries[i + 1].line_num,
                 timestamp |-> timestamp.returned]
    IN  IF IsErrorLine(entry)
        THEN TheOne({IF error_categories = <<>> THEN Returned(<<>>)
                     ELSE IF HasRaised(timestamp) THEN timestamp
                     ELSE Returned([k \in 1..Len(error_categories) |->
                              [category |-> error_categories[k],
                               error_info |-> info @@ [event_type |-> "error"]]]) :
                     error_categories \in
                         {CategorizeError(entry, selected_categories)}})
        ELSE IF Selected(selected_categories, "transcoding")
                /\ IsTranscodingEvent(entry)
        THEN TheOne({IF HasRaised(timestamp) THEN timestamp
                     ELSE Returned(<<[category |-> "transcoding",
                                      error_info |->
                                         info @@ [event_type |-> "transcoding_event",
                                                  transcoding_details |-> details]]>>) :
                     details \in {ExtractTranscodingDetailsWithContext(
                                     entry, EntriesOf(all_entries), i)}})
        ELSE IF Selected(selected_categories, "directstream")
                /\ IsDirectstreamEvent(entry)
        THEN TheOne({IF HasRaised(timestamp) THEN timestamp
                     ELSE Returned(<<[category |-> "directstream",
                                      error_info |->
                                         info @@ [event_type |-> "directstream_event",
                                                  directstream_details |-> details]]>>) :
                     details \in {ExtractTranscodingDetails(entry)}})
        ELSE Returned(<<>>)

\* the second pass from index i on: what is appended, in order, up to the
\* entry at which an exception ends the work on the file
RECURSIVE SecondPass(_, _, _, _)
SecondPass(all_entries, log_path, selected_categories, i) ==
    IF i >= Len(all_entries) THEN <<>>
    ELSE TheOne({IF HasRaised(records) THEN <<>>
                 ELSE records.returned
                      \o SecondPass(all_entries, log_path, selected_categories,
                                    i + 1) :
                 records \in {EntryRecords(all_entries, log_path,
                                           selected_categories, i)}})

\* all_errors[category].append(error_info) for each of the records
RECURSIVE AppendAll(_, _, _)
AppendAll(errors, records, n) ==
    IF n > Len(records) THEN errors
    ELSE AppendAll(Put(errors, records[n].category,
                       Append(Get(errors, records[n].category),
                              records[n].error_info)),
                   records, n + 1)

\* what one log file appends to all_errors: nothing when parse_log_line
\* raises in the first pass
FileRecords(log_file, selected_categories) ==
    IF \E n \in 1..Len(log_file.lines) : HasRaised(ParseLogLine(log_file.lines[n]))
    THEN <<>>
    ELSE TheOne({SecondPass(all_entries, log_file.path, selected_categories, 0) :
                 all_entries \in {CollectEntries(log_file.lines, 1,
                                                 Len(log_file.lines))}})

\* analyze_logs(categories) on entry
InitAnalyze ==
    /\ pc = "files"
    /\ log_paths \in LogPaths
    /\ nextPath = 1
    /\ categories \in CategoryChoices
    /\ all_errors = <<>>
    /\ found_errors = <<>>
    /\ max_errors_per_category = 2
    /\ CorrelateIdle
    /\ NoCall

\* for log_path in self.log_paths: one iteration
ProcessFile ==
    /\ pc = "files"
    /\ nextPath <= Len(log_paths)
    /\ all_errors' = AppendAll(all_errors,
                               FileRecords(log_paths[nextPath], categories), 1)
    /\ nextPath' = nextPath + 1
    /\ UNCHANGED <<pc, corrVars, callVars, found_errors,
                   max_errors_per_category, log_paths, categories>>

\* the loop over the files is over: for category, errors in all_errors.items()
StartReport ==
    /\ pc = "files"
    /\ nextPath > Len(log_paths)
    /\ pc' = "analyze"
    /\ UNCHANGED <<corrVars, callVars, reportVars>>

NextAnalyze ==
    \/ ProcessFile
    \/ StartReport
    \/ ReportPlain
    \/ CallCorrelate
    \/ GroupNext
    \/ StartMerge
    \/ MergeNext
    \/ Finalize
    \/ ReportTranscoding

SpecAnalyze == InitAnalyze /\ [][NextAnalyze]_vars

\* the events of session s that come from log file f
EventsFrom(s, f) == {k \in 1..Len(s.events) : s.events[k].file = f}

\* C11: no final transcoding session holds events of two different log
\* files, and the line range of a final session is the range of the line
\* numbers of its events in one file, the file of its first event.
C11_SessionsStayWithinOneFile ==
    pc = "done" =>
        /\ \A k \in 1..Len(merged_sessions) :
              \A i, j \in 1..Len(merged_sessions[k].events) :
                  merged_sessions[k].events[i].file
                      = merged_sessions[k].events[j].file
        /\ \A r \in 1..Len(correlated_sessions) :
              LET rep   == correlated_sessions[r]
                  s     == merged_sessions[IndexOfId(merged_sessions, rep.session_id)]
                  lines == {s.events[k].line_number : k \in EventsFrom(s, rep.file)}
              IN  rep.transcoding_details.line_range
                      = LineRange(Min(lines), Max(lines))

\* C13: across the whole mapping from category to records, an entry (a
\* line of a file) has at most one record.
C13_OneRecordPerEntry ==
    \A c1, c2 \in DOMAIN all_errors :
        \A i \in 1..Len(all_errors[c1]), j \in 1..Len(all_errors[c2]) :
            (/\ all_errors[c1][i].file = all_errors[c2][j].file
             /\ all_errors[c1][i].line_number = all_errors[c2][j].line_number)
                => (c1 = c2 /\ i = j)

-----------------------------------------------------------------------------
(* analyze_ffmpeg_command called on encoder commands *)

F_subtitles == <<"-","f","i","l","t","e","r","_","c","o","m","p","l","e","x"," ","s","u","b","t","i","t","l","e","s","=","f","=","a",".","a","s","s">>
F_scale == <<"-","v","f"," ","s","c","a","l","e","=","1","2","8","0",":","7","2","0">>
F_scaleCuda == <<"s","c","a","l","e","_","c","u","d","a","=","w","=","1","9","2","0",":","h","=","1","0","8","0">>
F_aac == <<"-","c",":","a"," ","a","a","c">>
F_audioCopy == <<"-","c",":","a"," ","c","o","p","y">>
F_channels == <<"-","a","c"," ","2">>
F_libx264 == <<"-","c",":","v"," ","l","i","b","x","2","6","4">>
F_bitrate == <<"-","b",":","v"," ","4","0","0","0","k">>
F_hwaccel == <<"-","h","w","a","c","c","e","l"," ","c","u","d","a">>
F_hwaccelFormat == <<"-","h","w","a","c","c","e","l","_","o","u","t","p","u","t","_","f","o","r","m","a","t"," ","c","u","d","a">>

\* the pieces the sample encoder commands are made of
CommandPieces ==
    {F_subtitles, F_scale, F_scaleCuda, F_aac, F_audioCopy, F_channels,
     F_libx264, F_bitrate, F_hwaccel, F_hwaccelFormat}

\* the most pieces in a sample command
MaxPieces == 4

\* the pieces joined by single spaces
RECURSIVE Spaced(_)
Spaced(pieces) ==
    IF pieces = <<>> THEN <<>>
    ELSE IF Len(pieces) = 1 THEN pieces[1]
    ELSE pieces[1] \o <<" ">> \o Spaced(Tail(pieces))

InitFfmpeg ==
    /\ pc = "analyze_ffmpeg_command"
    /\ \E n \in 0..MaxPieces : \E pieces \in [1..n -> CommandPieces] :
          arg = [ffmpeg_cmd |-> Spaced(pieces)]
    /\ ret = <<>>
    /\ CorrelateIdle
    /\ ReportIdle

\* self.analyze_ffmpeg_command(ffmpeg_cmd)
CallAnalyzeFfmpegCommand ==
    /\ pc = "analyze_ffmpeg_command"
    /\ ret' = Returned(AnalyzeFfmpegCommand(arg.ffmpeg_cmd))
    /\ pc' = "analyzed"
    /\ UNCHANGED <<corrVars, reportVars, arg>>

NextFfmpeg == CallAnalyzeFfmpegCommand

SpecFfmpeg == InitFfmpeg /\ [][NextFfmpeg]_vars

\* the reasons of a joined text: text.split("; "), and no reason for the
\* empty text
RECURSIVE SplitReasons(_)
SplitReasons(text) ==
    IF text = <<>> THEN <<>>
    ELSE LET cut == {i \in 1..Len(text) : StartsAt(text, i, S_semicolon)}
         IN  IF cut = {} THEN <<text>>
             ELSE <<SubSeq(text, 1, Min(cut) - 1)>>
                  \o SplitReasons(SubSeq(text, Min(cut) + Len(S_semicolon),
                                         Len(text)))

\* text ends with suffix
EndsWith(text, suffix) ==
    StartsAt(text, Len(text) - Len(suffix) + 1, suffix)

\* the place of a reason in the fixed order: 1 subtitle, 2 resolution,
\* 3 audio codec, 4 audio channels, 5 video codec, 6 bandwidth; 7 for a
\* hardware-acceleration note
ReasonRank(reason) ==
    IF reason \in {R_BurnAss, R_BurnSrt, R_BurnVtt, R_Burn, R_Overlay} THEN 1
    ELSE IF StartsAt(reason, 1, R_ClientRequires) /\ EndsWith(reason, R_resolution)
    THEN 2
    ELSE IF reason \in {R_Aac, R_Ac3} THEN 3
    ELSE IF StartsAt(reason, 1, R_ClientRequires) /\ EndsWith(reason, R_audioChannels)
    THEN 4
    ELSE IF reason \in {R_H264, R_Hevc} THEN 5
    ELSE IF StartsAt(reason, 1, R_BandwidthLimited) /\ EndsWith(reason, R_kbps)
    THEN 6
    ELSE IF StartsAt(reason, 1, R_Using) /\ EndsWith(reason, Tail(R_hardwareAcceleration))
    THEN 7
    ELSE 0

\* the resolution reasons of the scale filters of the sample commands
ScaleRequirements(cmd) ==
    (IF Contains(cmd, F_scale)
     THEN {R_ClientRequires \o <<"1","2","8","0","x","7","2","0">> \o R_resolution}
     ELSE {})
    \cup
    (IF Contains(cmd, F_scaleCuda)
     THEN {R_ClientRequires \o <<"1","9","2","0","x","1","0","8","0">> \o R_resolution}
     ELSE {})

\* C12: the primary reasons are in the fixed order subtitle, resolution,
\* audio codec, audio channels, video codec, bandwidth, each at most once;
\* for a command with a scale filter, an AAC audio target without an
\* audio-copy flag and a video bitrate flag they hold the WxH resolution
\* requirement, the AAC requirement and the kbps cap in that order; a
\* hardware-acceleration note is never a primary reason: it is in
\* technical_details, and in combined after all primary reasons.
C12_PrimaryReasonsInFixedOrder ==
    pc = "analyzed" =>
        LET cmd       == arg.ffmpeg_cmd
            primary   == SplitReasons(Get(ret.returned, "primary_reasons"))
            technical == SplitReasons(Get(ret.returned, "technical_details"))
            combined  == SplitReasons(Get(ret.returned, "combined"))
        IN  /\ \A i \in 1..Len(primary) : ReasonRank(primary[i]) \in 1..6
            /\ \A i, j \in 1..Len(primary) :
                  i < j => ReasonRank(primary[i]) < ReasonRank(primary[j])
            /\ (/\ ScaleRequirements(cmd) # {}
                /\ Contains(cmd, F_aac)
                /\ ~Contains(cmd, F_audioCopy)
                /\ Contains(cmd, F_bitrate))
                  => \E i, j, k \in 1..Len(primary) :
                        /\ i < j /\ j < k
                        /\ primary[i] \in ScaleRequirements(cmd)
                        /\ primary[j] = R_Aac
                        /\ primary[k] = R_BandwidthLimited \o <<"4","0","0","0">> \o R_kbps
            /\ \A i \in 1..Len(technical) : ReasonRank(technical[i]) = 7
            /\ (Contains(cmd, F_hwaccel) \/ Contains(cmd, F_hwaccelFormat))
                  => Len(technical) = 1
            /\ combined = primary \o technical

\* a command with hardware acceleration whose bitrate flag comes before
\* its scale filter and its AAC target has been analyzed
C12_Witness ==
    /\ pc = "analyzed"
    /\ arg.ffmpeg_cmd = Spaced(<<F_hwaccel, F_bitrate, F_scaleCuda, F_aac>>)
    /\ Len(SplitReasons(Get(ret.returned, "primary_reasons"))) = 3
    /\ Len(SplitReasons(Get(ret.returned, "combined"))) = 4

-----------------------------------------------------------------------------
(* correlate_transcoding_events on events that meet several identity rules *)

M_ffmpegUnknown == <<"f","f","m","p","e","g"," ","-","i"," ","f","i","l","e",":","/","m","e","d","i","a","/","u","n","k","n","o","w","n","_","0"," ","-","c",":","v"," ","l","i","b","x","2","6","4">>

\* an encoder command whose details carry a playing id (taken over from a
\* line of the same timestamp), a playback event whose details carry two
\* identifiers and whose message carries a third, an event without any cue,
\* and an encoder command on a file called unknown_0
IdentityKinds ==
    { [message |-> M_ffmpegMovie, transcoding_details |-> NoDetails],
      [message |-> M_ffmpegOther, transcoding_details |-> [event_playing_id |-> ID_p1]],
      [message |-> M_timer, transcoding_details |-> [event_playing_id |-> ID_p1]],
      [message |-> M_timer, transcoding_details |-> [session_playing_id |-> ID_p1]],
      [message |-> M_rawItem,
       transcoding_details |-> [session_playing_id |-> ID_p2, item_id |-> ID_p1]],
      [message |-> M_plain, transcoding_details |-> NoDetails],
      [message |-> M_ffmpegUnknown, transcoding_details |-> NoDetails] }

\* no instant; 10 s apart across a five-minute boundary; 1 s apart across
\* a boundary of the rounded 30-second buckets
IdentityTimes == {None, At(290), At(300), At(314), At(315)}

InitIdentity ==
    /\ pc = "group"
    /\ \E n \in 0..MaxEvents :
          \E f \in [1..n -> IdentityKinds \X IdentityTimes] :
              events = EventList(n, f)
    /\ CorrelateEntry
    /\ NoCall
    /\ ReportIdle

SpecIdentity == InitIdentity /\ [][NextCorrelate]_vars

\* two input events gave two provisional sessions whose latest instants are
\* at most 30 seconds apart, and the merge pass is over
TwoCloseSessions ==
    /\ pc = "done"
    /\ Len(events) = 2
    /\ Len(sessions) = 2
    /\ sessions[1].latest_timestamp # None
    /\ sessions[2].latest_timestamp # None
    /\ WithinSeconds(sessions[1].latest_timestamp,
                     sessions[2].latest_timestamp, 30)

\* C14: two sessions whose latest instants are within 30 seconds are merged
\* when they share a base filename, when one references a file path and the
\* other carries a structured identifier, or when their identifier sets
\* intersect -- also when both reference file paths without a common base
\* filename.
C14_MergedWhenAnyConditionHolds ==
    (/\ TwoCloseSessions
     /\ \/ SessionFiles(sessions[1]) \cap SessionFiles(sessions[2]) # {}
        \/ HasFile(sessions[1]) /\ SessionIds(sessions[2]) # {}
        \/ HasFile(sessions[2]) /\ SessionIds(sessions[1]) # {}
        \/ SessionIds(sessions[1]) \cap SessionIds(sessions[2]) # {})
        => /\ Len(merged_sessions) = 1
           /\ Len(merged_sessions[1].events) = 2

\* C15: two provisional sessions whose latest instants are within 30
\* seconds and whose structured identifiers (event playing id, session
\* playing id, item id) have a value in common are merged into one session.
C15_CommonIdentifierMerges ==
    (/\ TwoCloseSessions
     /\ \E a, b \in 1..3 :
           /\ Get(events[1].transcoding_details, IdFields[a]) # <<>>
           /\ Get(events[1].transcoding_details, IdFields[a])
                 = Get(events[2].transcoding_details, IdFields[b]))
        => /\ Len(merged_sessions) = 1
           /\ Len(correlated_sessions) = 1

\* the provisional session that holds the i-th input event
ProvisionalOf(i) ==
    CHOOSE k \in 1..Len(sessions) :
        \E n \in 1..Len(sessions[k].events) : sessions[k].events[n] = events[i]

\* the event has an identifier in its details and an instant
KeyedByDetails(event) ==
    /\ \E n \in 1..3 : Get(event.transcoding_details, IdFields[n]) # <<>>
    /\ event.timestamp # None

\* the first of event_playing_id, session_playing_id, item_id that is set
FirstIdentifier(event) ==
    IF Get(event.transcoding_details, "event_playing_id") # <<>>
    THEN event.transcoding_details.event_playing_id
    ELSE IF Get(event.transcoding_details, "session_playing_id") # <<>>
    THEN event.transcoding_details.session_playing_id
    ELSE event.transcoding_details.item_id

\* floor(epochSeconds / 300)
FiveMinuteBucket(event) == Epoch(event.timestamp) \div 300

\* C16: once the events are grouped, an event with an identifier in its
\* details and an instant is in the provisional session keyed by its first
\* identifier and floor(epochSeconds / 300), whatever its message holds; two
\* such events are in the same provisional session exactly when they have
\* the same first identifier and the same five-minute bucket.
C16_DetailIdentifierWins ==
    (pc # "group" \/ nextEvent > Len(events)) =>
        /\ \A i \in 1..Len(events) :
              KeyedByDetails(events[i]) =>
                  sessions[ProvisionalOf(i)].id
                      = FirstIdentifier(events[i]) \o <<"_">>
                          \o IntToStr(FiveMinuteBucket(events[i]))
        /\ \A i, j \in 1..Len(events) :
              (KeyedByDetails(events[i]) /\ KeyedByDetails(events[j])) =>
                  (ProvisionalOf(i) = ProvisionalOf(j)
                      <=> /\ FirstIdentifier(events[i]) = FirstIdentifier(events[j])
                          /\ FiveMinuteBucket(events[i]) = FiveMinuteBucket(events[j]))

\* two events with the same identifier in their details, 10 seconds apart
\* across a five-minute boundary, whose messages hold a raw identifier or a
\* file path, have been grouped into two provisional sessions
C16_Witness ==
    /\ pc = "done"
    /\ Len(events) = 2
    /\ KeyedByDetails(events[1]) /\ KeyedByDetails(events[2])
    /\ FirstIdentifier(events[1]) = FirstIdentifier(events[2])
    /\ \/ RawIdInMessage(events[1].message) # <<>>
       \/ Contains(events[1].message, S_file)
    /\ events[1].timestamp = At(290)
    /\ events[2].timestamp = At(300)
    /\ ProvisionalOf(1) # ProvisionalOf(2)

\* the event has no identifier in its details or its message and no file
\* reference
NoCue(event) ==
    /\ \A n \in 1..3 : Get(event.transcoding_details, IdFields[n]) = <<>>
    /\ RawIdInMessage(event.message) = <<>>
    /\ ~Contains(event.message, S_file)

\* C17: two events with an instant and without identifier or file
\* reference whose instants differ by one second end in the same session.
C17_OneSecondApartStayTogether ==
    (/\ pc = "done"
     /\ Len(events) = 2
     /\ NoCue(events[1]) /\ NoCue(events[2])
     /\ events[1].timestamp # None /\ events[2].timestamp # None
     /\ Epoch(events[1].timestamp) - Epoch(events[2].timestamp) \in {1, -1}
     /\ events[1].timestamp[3] = events[2].timestamp[3])
        => /\ Len(merged_sessions) = 1
           /\ Len(merged_sessions[1].events) = 2

\* C18: an event without instant, identifier and file reference ends as a
\* final session that holds exactly that event, whatever the other events.
C18_SyntheticIdentityIsFresh ==
    pc = "done" =>
        \A i \in 1..Len(events) :
            (NoCue(events[i]) /\ events[i].timestamp = None) =>
                \E k \in 1..Len(merged_sessions) :
                    merged_sessions[k].events = <<events[i]>>

-----------------------------------------------------------------------------
(* correlate_transcoding_events: the order of the merge pass *)

\* the most events of the lists of the merge-order runs
MaxMergeEvents == 3

\* an encoder command and two playback events of different sessions
MergeKinds ==
    { [message |-> M_ffmpegOther, transcoding_details |-> NoDetails],
      [message |-> M_timer, transcoding_details |-> [event_playing_id |-> ID_p1]],
      [message |-> M_timer, transcoding_details |-> [event_playing_id |-> ID_p2]] }

\* no instant, and three instants 25 seconds apart
MergeTimes == {None, At(290), At(315), At(340)}

InitMerge ==
    /\ pc = "group"
    /\ \E n \in 0..MaxMergeEvents :
          \E f \in [1..n -> MergeKinds \X MergeTimes] : events = EventList(n, f)
    /\ CorrelateEntry
    /\ NoCall
    /\ ReportIdle

SpecMerge == InitMerge /\ [][NextCorrelate]_vars

\* a is the beginning of b
IsPrefix(a, b) == Len(a) <= Len(b) /\ a = SubSeq(b, 1, Len(a))

\* one iteration of the merge loop takes the next provisional session in
\* creation order; the accepted sessions that satisfy the merge conditions
\* with their current latest instant are `targets`
MergeStepInOrder ==
    LET session == sessions[mergeIdx]
        targets == {k \in 1..Len(merged_sessions) :
                       ShouldMerge(session, merged_sessions[k])}
    IN  /\ Len(owner) = mergeIdx - 1
        /\ \A a, b \in 1..Len(sessions) :
              a < b => sessions[a].events[1].line_number
                          < sessions[b].events[1].line_number
        /\ IF targets = {}
           THEN merged_sessions' = Append(merged_sessions, session)
           ELSE /\ Len(merged_sessions') = Len(merged_sessions)
                /\ \A k \in 1..Len(merged_sessions) :
                      IF k = Min(targets)
                      THEN /\ merged_sessions'[k].events
                                = merged_sessions[k].events \o session.events
                           /\ merged_sessions'[k].id = merged_sessions[k].id
                      ELSE merged_sessions'[k] = merged_sessions[k]

\* an accepted session stays, at its place, with the events it had
AcceptedSessionsStay ==
    /\ Len(merged_sessions') >= Len(merged_sessions)
    /\ \A k \in 1..Len(merged_sessions) :
          /\ merged_sessions'[k].id = merged_sessions[k].id
          /\ IsPrefix(merged_sessions[k].events, merged_sessions'[k].events)

\* C19: the merge pass takes the provisional sessions in creation order;
\* each is absorbed by the first accepted session, in acceptance order, that
\* satisfies the merge conditions with its current latest instant, or is
\* accepted unchanged; accepted sessions are never discarded or merged with
\* each other, the first provisional session is the first final session,
\* and there are at most as many final sessions as provisional ones.
C19_MergePassOrder ==
    [][/\ (pc = "merge" /\ mergeIdx' = mergeIdx + 1) => MergeStepInOrder
       /\ pc = "merge" => AcceptedSessionsStay
       /\ pc' = "done" =>
             /\ Len(merged_sessions') <= Len(sessions')
             /\ Len(correlated_sessions') = Len(merged_sessions')
             /\ sessions' # <<>> =>
                   /\ merged_sessions'[1].id = sessions'[1].id
                   /\ IsPrefix(sessions'[1].events, merged_sessions'[1].events)]_vars

\* the merge pass is over: the third provisional session was absorbed by
\* the first accepted session although the second one qualified too
C19_Witness ==
    /\ pc = "done"
    /\ Len(sessions) = 3
    /\ Len(merged_sessions) = 2
    /\ owner = <<1, 2, 1>>
    /\ ShouldMerge(sessions[3], sessions[2])

\* the fields with a value that extract_transcoding_details finds in an entry
OwnFields(entry) ==
    TheOne({[key \in {x \in DOMAIN d : d[x] # <<>>} |-> d[key]] :
            d \in {ExtractTranscodingDetails(entry)}})

\* the indices of the other entries at most 20 places from index i whose
\* timestamp string is the one of the entry at i
SameTimestampNear(all_entries, i) ==
    {k \in Max({0, i - 20})..Min({Len(all_entries) - 1, i + 20}) :
        /\ k # i
        /\ all_entries[k + 1].entry.timestamp = all_entries[i + 1].entry.timestamp}

\* C20: for an entry with a non-empty timestamp string, every other entry
\* at most 20 places before or after it with the identical timestamp string
\* contributes its extracted fields; a field keeps the value of the entry
\* itself, else of the contributing entry of lowest index; no other entry
\* contributes a field.
C20_ContextWindow ==
    (pc = "extracted" /\ arg.all_entries[arg.current_index + 1].entry.timestamp # <<>>) =>
        \E own \in {OwnFields(arg.all_entries[arg.current_index + 1].entry)},
           near \in {SameTimestampNear(arg.all_entries, arg.current_index)} :
           \E fields \in {[k \in near |-> OwnFields(arg.all_entries[k + 1].entry)]} :
              LET details == ret.returned
              IN  /\ \A key \in DOMAIN own :
                        key \in DOMAIN details /\ details[key] = own[key]
                  /\ \A k \in near : \A key \in DOMAIN fields[k] \ DOMAIN own :
                        /\ key \in DOMAIN details
                        /\ details[key]
                              = fields[Min({j \in near : key \in DOMAIN fields[j]})][key]
                  /\ \A key \in DOMAIN details \ {"line_range", "time_range", "username"} :
                        \/ key \in DOMAIN own
                        \/ \E k \in near : key \in DOMAIN fields[k]


\* the indices range(search_start, search_end) visits whose entry carries the
\* timestamp string of the entry at i
TouchedIndices(all_entries, i) ==
    {k \in Max({0, i - ContextReach})..(Min({Len(all_entries), i + ContextReach}) - 1) :
        all_entries[k + 1].entry.timestamp = all_entries[i + 1].entry.timestamp}

\* C21: for an event with a non-empty timestamp string, the line_range of
\* the details returned by extract_transcoding_details_with_context is
\* 'min-max' of the line numbers, in the file, of the same-timestamp entries
\* visited in the window, the event's own entry among them, also where blank
\* lines precede the event.
C21_LineRangeInFileLines ==
    (pc = "extracted" /\ arg.all_entries[arg.current_index + 1].entry.timestamp # <<>>) =>
        \E touched \in {TouchedIndices(arg.all_entries, arg.current_index)} :
           \E nums \in {{arg.all_entries[k + 1].line_num : k \in touched}} :
              /\ arg.current_index \in touched
              /\ Get(ret.returned, "line_range")
                    = IntToStr(Min(nums)) \o S_dash \o IntToStr(Max(nums))


\* the member events of session s, in order, whose details hold a non-empty
\* value for key
HoldersOf(s, key) ==
    {k \in 1..Len(s.events) : Get(Details(s.events[k]), key) # <<>>}

\* C22: a field of the details, line_range and time_range of the context
\* correlator included, keeps its first non-empty value through the union
\* of the member details and the finalization of the session: in every
\* final session each field some member event holds has the value of the
\* first member event that holds it.
C22_FirstWriterWinsThroughout ==
    pc = "done" =>
        \A r \in 1..Len(correlated_sessions) :
            \E s \in {merged_sessions[IndexOfId(merged_sessions,
                                                correlated_sessions[r].session_id)]} :
               \A e \in 1..Len(s.events) :
                  \A key \in DOMAIN Details(s.events[e]) :
                     HoldersOf(s, key) # {} =>
                        Get(correlated_sessions[r].transcoding_details, key)
                           = Details(s.events[Min(HoldersOf(s, key))])[key]


\* the line has the shape [timestamp] [level] message with no bracketed
\* category after the level
IsTwoBracketLine(line) ==
    /\ TwoBrackets(line).end # 0
    /\ BracketAt(line, TwoBrackets(line).end).end = 0

\* C23: for a line of the shape [timestamp] [level] message with no
\* bracketed category, parse_log_line gives, when the text after the level
\* bracket contains ffmpeg in any case, an entry of category 'FFmpeg' whose
\* message is that whole text, and otherwise an entry of empty category.
C23_CommandLineGetsFFmpegCategory ==
    (pc = "returned" /\ IsTwoBracketLine(Strip(arg))) =>
        \E line \in {Strip(arg)} :
           \E message \in {Rest(line, TwoBrackets(line).end)} :
              /\ ~HasRaised(ret)
              /\ IF Contains(Lower(message), S_ffmpeg)
                 THEN /\ ret.returned.category = S_FFmpeg
                      /\ ret.returned.message = Strip(message)
                 ELSE ret.returned.category = <<>>

-----------------------------------------------------------------------------
(* analyze_ffmpeg_command on commands that meet several rules, and on video
   bitrate flags in every unit *)

F_overlay == <<"o","v","e","r","l","a","y","=","0",":","0">>
F_ac3 == <<"-","c",":","a"," ","a","c","3">>
F_libx265 == <<"-","c",":","v"," ","l","i","b","x","2","6","5">>

\* the option -b:v <value><unit>
BitrateFlag(value, unit) == S_bv \o <<" ">> \o IntToStr(value) \o unit

\* the <<value, unit>> of the sample bitrate flags: one bitrate in bits,
\* kilobits and megabits, and values that are not whole kilobits
BitrateSettings ==
    {<<4000000, <<>>>>, <<4000, <<"k">>>>, <<4000, <<"K">>>>, <<4, <<"m">>>>,
     <<4, <<"M">>>>, <<4500, <<>>>>, <<999, <<>>>>}

\* the pieces the sample commands are made of
RulePieces ==
    {F_subtitles, F_overlay, F_aac, F_ac3, F_libx264, F_libx265}
    \cup {BitrateFlag(b[1], b[2]) : b \in BitrateSettings}

\* the most pieces in a sample command
MaxRulePieces == 3

InitRules ==
    /\ pc = "analyze_ffmpeg_command"
    /\ \E n \in 0..MaxRulePieces : \E pieces \in [1..n -> RulePieces] :
          arg = [ffmpeg_cmd |-> Spaced(pieces), pieces |-> pieces]
    /\ ret = <<>>
    /\ CorrelateIdle
    /\ ReportIdle

SpecRules == InitRules /\ [][NextFfmpeg]_vars

\* C24: every rule of the priority list is evaluated whether or not an
\* earlier rule matched: the primary reasons of a command hold one sentence
\* for each rule the command satisfies (subtitle burn-in, overlay, audio
\* format, video codec, bandwidth), so a command with both a subtitle
\* burn-in and an overlay has a burn-in sentence and the overlay sentence.
C24_EveryRuleEvaluated ==
    pc = "analyzed" =>
        \E cmd \in {arg.ffmpeg_cmd} :
           \E primary \in {SplitReasons(Get(ret.returned, "primary_reasons"))},
              audio_copy \in {Contains(cmd, S_codecCopy) \/ Contains(cmd, S_cCopy)} :
              LET Has(reasons) == \E i \in 1..Len(primary) : primary[i] \in reasons
              IN  /\ (Contains(cmd, S_filter_complex) /\ Contains(cmd, S_subtitles))
                        => Has({R_BurnAss, R_BurnSrt, R_BurnVtt, R_Burn})
                  /\ (Contains(cmd, S_overlay_cuda) \/ Contains(cmd, S_overlay))
                        => Has({R_Overlay})
                  /\ (~audio_copy /\ (Contains(cmd, S_aac) \/ Contains(cmd, S_ac3)))
                        => Has({R_Aac, R_Ac3})
                  /\ (\/ Contains(cmd, S_h264_nvenc) \/ Contains(cmd, S_libx264)
                      \/ Contains(cmd, S_hevc_nvenc) \/ Contains(cmd, S_libx265))
                        => Has({R_H264, R_Hevc})
                  /\ Contains(cmd, S_bv)
                        => \E i \in 1..Len(primary) : ReasonRank(primary[i]) = 6

\* the places of the bitrate flags among the pieces
BitratePlaces(pieces) ==
    {i \in 1..Len(pieces) :
        \E b \in BitrateSettings : pieces[i] = BitrateFlag(b[1], b[2])}

\* the bitrate, in bits per second, the flag <<value, unit>> stands for
BitsPerSecond(b) ==
    IF Lower(b[2]) = <<"k">> THEN b[1] * 1000
    ELSE IF Lower(b[2]) = <<"m">> THEN b[1] * 1000000
    ELSE b[1]

-----------------------------------------------------------------------------
(* correlate_transcoding_events: the displayed ranges of a final session *)

\* the most events of the lists of the range runs
MaxSpanEvents == 2

\* an encoder command for one file (its events share a session whatever
\* their instants) and a playback event
SpanKinds ==
    { [message |-> M_ffmpegMovie, transcoding_details |-> NoDetails],
      [message |-> M_timer, transcoding_details |-> [event_playing_id |-> ID_p1]] }

\* the <<instant, line number>> of the sample events: instants 5 minutes,
\* 10 minutes, 10 minutes and a microsecond, and 10 minutes and a second
\* after the first; lines 11, 1000, 1001 and 1020 after the first
SpanPlaces ==
    { <<At(0), 1>>, <<At(300), 12>>, <<At(600), 1001>>,
      <<Instant(SampleDay, 600, 1), 1002>>, <<At(601), 1021>>, <<None, 2>> }

InitSpan ==
    /\ pc = "group"
    /\ \E n \in 0..MaxSpanEvents :
          \E f \in [1..n -> SpanKinds \X SpanPlaces] :
              events = [i \in 1..n |-> Event(f[i][1], f[i][2][1], f[i][2][2])]
    /\ CorrelateEntry
    /\ NoCall
    /\ ReportIdle

SpecSpan == InitSpan /\ [][NextCorrelate]_vars

\* the accepted session a final session stands for
SessionOf(rep) == merged_sessions[IndexOfId(merged_sessions, rep.session_id)]

\* latest - earliest in microseconds
SpanMicroseconds(earliest, latest) ==
    (Epoch(latest) - Epoch(earliest)) * 1000000 + (latest[3] - earliest[3])

\* C26: the displayed time range of a final session that has instants is
\* the latest instant alone when latest - earliest is more than 600 s, that
\* single instant when earliest = latest, and 'earliest - latest' otherwise;
\* a span of exactly 600 s is shown in full.
C26_TimeRangeOfSession ==
    pc = "done" =>
        \A r \in 1..Len(correlated_sessions) :
            \E s \in {SessionOf(correlated_sessions[r])} :
               (s.earliest_timestamp # None /\ s.latest_timestamp # None) =>
                  \E span \in {SpanMicroseconds(s.earliest_timestamp, s.latest_timestamp)} :
                     Get(correlated_sessions[r].transcoding_details, "time_range")
                        = (IF span > 600 * 1000000 \/ span = 0
                           THEN DatetimeStr(s.latest_timestamp)
                           ELSE DatetimeStr(s.earliest_timestamp) \o S_spaceDashSpace
                                \o DatetimeStr(s.latest_timestamp))

\* a final session whose instants are exactly 600 s apart
C26_Witness ==
    /\ pc = "done"
    /\ \E r \in 1..Len(correlated_sessions) :
          /\ SessionOf(correlated_sessions[r]).earliest_timestamp = At(0)
          /\ SessionOf(correlated_sessions[r]).latest_timestamp = At(600)

\* the line numbers of the member events of session s
MemberLines(s) == {s.events[k].line_number : k \in 1..Len(s.events)}

\* C27: with min and max the smallest and largest line numbers of the
\* member events, the displayed line range of a final session is 'min-max'
\* when max - min is at most 1000, and otherwise the two sub-ranges
\* min..min+10 and max-10..max with an ellipsis between them, which do not
\* overlap and lie within min..max.
C27_LineRangeOfSession ==
    pc = "done" =>
        \A r \in 1..Len(correlated_sessions) :
            \E lines \in {MemberLines(SessionOf(correlated_sessions[r]))} :
               \E min_line \in {Min(lines)}, max_line \in {Max(lines)} :
                  IF max_line - min_line <= 1000
                  THEN Get(correlated_sessions[r].transcoding_details, "line_range")
                          = IntToStr(min_line) \o S_dash \o IntToStr(max_line)
                  ELSE /\ Get(correlated_sessions[r].transcoding_details, "line_range")
                             = IntToStr(min_line) \o S_dash \o IntToStr(min_line + 10)
                               \o S_ellipsis
                               \o IntToStr(max_line - 10) \o S_dash \o IntToStr(max_line)
                       /\ min_line + 10 < max_line - 10

\* a final session whose lines span 1001 has been reported
C27_Witness ==
    /\ pc = "done"
    /\ \E r \in 1..Len(correlated_sessions) :
          MemberLines(SessionOf(correlated_sessions[r])) = {1, 1002}

-----------------------------------------------------------------------------
(* correlate_transcoding_events: what the two passes keep *)

\* the sessions in being: the provisional sessions while the events are
\* grouped; in the merge pass the accepted sessions and the provisional
\* sessions not yet visited; at the end the accepted sessions
SessionsInBeing ==
    IF pc = "group" THEN sessions
    ELSE IF pc = "merge"
    THEN merged_sessions \o SubSeq(sessions, mergeIdx, Len(sessions))
    ELSE merged_sessions

\* the places <<session, position>> at which event is a member
PlacesOf(event, pool) ==
    {p \in UNION {{<<k, j>> : j \in 1..Len(pool[k].events)} : k \in 1..Len(pool)} :
        pool[p[1]].events[p[2]] = event}

RECURSIVE MemberCount(_)
MemberCount(pool) ==
    IF pool = <<>> THEN 0
    ELSE Len(Head(pool).events) + MemberCount(Tail(pool))

\* C28: after the grouping of each event and after every step of the merge
\* pass every event taken so far is a member of exactly one session, and
\* the member counts of the final sessions sum to the number of input
\* events.
C28_EventConservation ==
    (pc \in {"group", "merge", "done"}) =>
        \E pool \in {SessionsInBeing} :
           /\ \A i \in 1..(nextEvent - 1) :
                 Cardinality(PlacesOf(events[i], pool)) = 1
           /\ MemberCount(pool) = nextEvent - 1
           /\ pc = "done" => /\ MemberCount(merged_sessions) = Len(events)
                             /\ Len(correlated_sessions) = Len(merged_sessions)

\* three events were grouped into two provisional sessions, which the merge
\* pass made one
C28_Witness ==
    /\ pc = "done"
    /\ Len(events) = 3
    /\ Len(sessions) = 2
    /\ Len(merged_sessions) = 1

\* the instants of the member events of session s
MemberInstants(s) ==
    {s.events[k].timestamp : k \in 1..Len(s.events)} \ {None}

\* earliest and latest of s are absent when no member has an instant, and
\* else the minimum and the maximum of the members' instants
InstantRangeHolds(s) ==
    \E instants \in {MemberInstants(s)} :
       IF instants = {}
       THEN s.earliest_timestamp = None /\ s.latest_timestamp = None
       ELSE /\ s.earliest_timestamp \in instants
            /\ s.latest_timestamp \in instants
            /\ \A t \in instants : /\ ~Before(t, s.earliest_timestamp)
                                   /\ ~Before(s.latest_timestamp, t)

\* C29: for every provisional session and every accepted session, at every
\* point of the grouping and of the merge pass, earliest and latest are both
\* absent exactly when no member event has an instant, and otherwise they
\* are the minimum and the maximum of the member events' instants.
C29_InstantRange ==
    (pc \in {"group", "merge", "done"}) =>
        /\ \A k \in 1..Len(sessions) : InstantRangeHolds(sessions[k])
        /\ \A k \in 1..Len(merged_sessions) : InstantRangeHolds(merged_sessions[k])

\* an accepted session of three members: the first at 00:05:15, the second
\* without an instant, and an earliest instant, 00:04:50, that came last
C29_Witness ==
    /\ pc = "done"
    /\ \E k \in 1..Len(merged_sessions) :
          /\ Len(merged_sessions[k].events) = 3
          /\ merged_sessions[k].events[1].timestamp = At(315)
          /\ merged_sessions[k].events[2].timestamp = None
          /\ merged_sessions[k].earliest_timestamp = At(290)

-----------------------------------------------------------------------------
(* analyze_logs: the kind of record an entry gets *)

L_errTimer == <<"[","2","0","2","5","-","0","9","-","2","5"," ","0","0",":","4","3",":","1","6","]"," ","[","E","R","R","]"," ","[","7","]"," ","S","t","a","r","t","P","l","a","y","b","a","c","k","T","i","m","e","r",":"," ","e","v","e","n","t","_","p","l","a","y","i","n","g","_","i","d","=","\"","p","1","\"">>
L_remuxEncoder == <<"[","2","0","2","5","-","0","9","-","2","5"," ","0","0",":","4","3",":","1","6","]"," ","[","I","N","F","]"," ","[","7","]"," ","S","t","a","r","t","e","d"," ","r","e","m","u","x"," ","o","f"," ","m","o","v","i","e",".","m","k","v"," ","w","i","t","h"," ","l","i","b","x","2","6","4">>
L_errRemux == <<"[","2","0","2","5","-","0","9","-","2","5"," ","0","0",":","4","3",":","1","6","]"," ","[","E","R","R","]"," ","[","7","]"," ","S","t","a","r","t","e","d"," ","r","e","m","u","x"," ","o","f"," ","m","o","v","i","e",".","m","k","v">>

\* an error line that is a transcoding event too; a line that is both a
\* transcoding and a direct-stream event; an error line that is a
\* direct-stream event too; events of one kind; an error line no pattern of
\* a category matches; an error line the transcoding patterns match
KindLines ==
    {L_errTimer, L_remuxEncoder, L_errRemux, L_timerP1, L_remux, L_errOther,
     L_errFfmpeg}

\* the most lines in a sample file
MaxKindLines == 2

\* the sample values of the categories argument
KindChoices ==
    {<<"transcoding">>, <<"directstream">>, <<"transcoding", "directstream">>,
     <<"directstream", "transcoding", "general">>, <<"database">>}

\* analyze_logs(categories) on entry, with one log file
InitKinds ==
    /\ pc = "files"
    /\ \E n \in 0..MaxKindLines : \E lines \in [1..n -> KindLines] :
          log_paths = <<[path |-> "a.log", lines |-> lines]>>
    /\ nextPath = 1
    /\ categories \in KindChoices
    /\ all_errors = <<>>
    /\ found_errors = <<>>
    /\ max_errors_per_category = 2
    /\ CorrelateIdle
    /\ NoCall

SpecKinds == InitKinds /\ [][NextAnalyze]_vars

\* the records <<category, index>> of all_errors made for line n
RecordsOfLine(n) ==
    UNION {{<<c, i>> : i \in {j \in 1..Len(all_errors[c]) :
                                 all_errors[c][j].line_number = n}} :
           c \in DOMAIN all_errors}

\* no pattern of a selected category is found in the text of the entry
NoCategoryMatches(entry, selected_categories) ==
    \E t \in {ErrorText(entry)} :
       \A n \in 1..Len(selected_categories) :
          selected_categories[n] \in DOMAIN error_patterns =>
             \E patterns \in {error_patterns[selected_categories[n]]} :
                \A k \in 1..Len(patterns) : ~Search(patterns[k], t)

=============================================================================
